---- MODULE Spec2Model ----
(***************************************************************************)
(* Edit Tracking Tools (QGIS plugin, src/edit_tracking_tools.py).          *)
(*                                                                         *)
(* The host (QGIS) owns the layers, their fields, their features and the   *)
(* editing sessions, and delivers notifications (Qt signals) to the        *)
(* plugin.  The plugin owns the tracking registry (tracked_layer_ids,      *)
(* auto_connections, _prompted_this_edit_session), the persisted set of    *)
(* previously tracked sources, the single-shot stats timer and the stats   *)
(* label.  Everything runs on the one GUI thread, so every handler is one  *)
(* atomic action.                                                          *)
(***************************************************************************)
EXTENDS Integers, FiniteSets, Sequences, TLC

(* ------------------------------ universe ------------------------------ *)

\* Layer ids of the vector layers the project may hold.
VectorIds == {"A", "B"}
\* One raster (non-vector) layer, always in the project.
RasterId == "R"
\* iface.activeLayer() returning None.
NoLayer == "none"
\* layer.source() values.
Sources == {"s1", "s2"}

\* src/edit_tracking_tools.py:37,38
EDIT_FIELD == "edited"
DATE_FIELD == "edited_dat"
RequiredFields == {EDIT_FIELD, DATE_FIELD}

\* Python None / attribute NULL, for a tag and for a date.
None == -1
\* A tag value int() cannot coerce (for instance a string that is no number).
NotANumber == -2
\* A QDate for which isValid() is false.
InvalidDate == 0
\* QTimer.start(250): the delay of the stats timer, in ms.
StatsDelay == 250

\* Bounds of the model.
MaxFeat == 2       \* feature ids per layer
MaxEditFeat == 1   \* feature ids in use in SpecEdit
MaxDay == 2        \* calendar days 1..MaxDay
MaxConn == 2       \* plugin connections to one layer's editing signals
MaxPrompts == 2    \* prompts counted per editing session
TickUnit == 125    \* granularity of the clock of SpecTimer, in ms
MaxBurst == 3      \* refresh requests counted in one burst

Fids == 1..MaxFeat
Days == 1..MaxDay
\* Tag values a record may carry: NULL, 0, 1, another integer, a non-number.
TagValues == {None, 0, 1, 2, NotANumber}
DateValues == {None, InvalidDate} \cup Days
NoFeature == [geom |-> FALSE, edited |-> -9, date |-> -9]
Feature == [geom : BOOLEAN, edited : TagValues, date : DateValues]

VARIABLES
    \* ---- host ----
    activeLayer,        \* iface.activeLayer(): a layer id or NoLayer
    projectLayers,      \* vector layer ids QgsProject.mapLayer() knows
    isEditable,         \* layer.isEditable()
    layerFields,        \* names among RequiredFields that layer.fields() has
    layerSource,        \* layer.source()
    features,           \* layer.getFeatures(): fid -> feature or NoFeature
    selected,           \* layer.selectedFeatureIds()
    currentDate,        \* QDate.currentDate()
    edit_conn,          \* connections of the plugin's editingStarted/Stopped slots
    mut_conn,           \* connections of a geom_fn/add_fn pair to the layer
    \* ---- plugin ----
    tracked_layer_ids,
    auto_connections,               \* keys of the dict
    prompted_this_edit_session,
    tracked_sources,                \* QgsSettings value tracked_sources
    edit_signal_connected_layer_id, \* a vector id or NoLayer (None)
    stats_timer_active,             \* _stats_timer.isActive()
    timer_remaining,                \* ms until the pending timeout
    pending_refreshes,              \* timeouts of _stats_timer scheduled, not yet delivered
    toggle_checked,                 \* action_auto_toggle.isChecked()
    create_enabled,                 \* action_create_field.isEnabled()
    tools_enabled,                  \* the four tracking tools' isEnabled()
    stats_label,                    \* what _update_stats_now published last
    day_date,                       \* day_date_edit.date()
    \* ---- bookkeeping of the run ----
    removing,           \* layer whose removal is being notified, or NoLayer
    prompt_count,       \* prompts shown for an id in its current session
    session_stopped,    \* ids that had an editing session stop since they were loaded
    burst_n,            \* refresh requests of the burst being observed
    burst_age,          \* ms since the first request of the burst
    burst_recomputes,   \* recomputes since the first request of the burst
    burst_fresh,        \* no refresh was pending when the burst began
    since_request,      \* ms since the most recent refresh request (up to StatsDelay)
    unloaded            \* unload() ran: the toolbar and the dock are gone

hostVars == <<activeLayer, projectLayers, isEditable, layerFields, layerSource,
              features, selected, currentDate, edit_conn, mut_conn>>
registryVars == <<tracked_layer_ids, auto_connections, prompted_this_edit_session,
                  tracked_sources, edit_signal_connected_layer_id>>
timerVars == <<stats_timer_active, timer_remaining, pending_refreshes>>
uiVars == <<toggle_checked, create_enabled, tools_enabled>>
statsVars == <<stats_label, day_date>>
sessionAux == <<prompt_count, session_stopped>>
burstAux == <<burst_n, burst_age, burst_recomputes, burst_fresh, since_request,
              unloaded>>
vars == <<hostVars, registryVars, timerVars, uiVars, statsVars, removing,
          sessionAux, burstAux>>

(* ------------------------------ helpers ------------------------------- *)

\* _active_vector_layer(): the active layer if it is a QgsVectorLayer.
ActiveVectorLayer == IF activeLayer \in VectorIds THEN activeLayer ELSE NoLayer

\* _layer_has_required_fields(layer), on a given fields map.
LayerHasRequiredFields(flds, layer) ==
    EDIT_FIELD \in flds[layer] /\ DATE_FIELD \in flds[layer]

\* _is_previously_tracked(layer)
IsPreviouslyTracked(layer) == layerSource[layer] \in tracked_sources

\* Mutant of SaveTrackedSource: the stored list is not read first, the value
\* is overwritten with the one source.
SaveTrackedSourceOnly(layer) == {layerSource[layer]}

\* _save_tracked_source(layer): the stored sources with layer.source() added.
SaveTrackedSource(layer) == tracked_sources \cup {layerSource[layer]}

\* signal.disconnect(slot) inside try/except: one connection less, and the
\* exception of disconnecting what is not connected is swallowed.
Disconnect(n) == IF n > 0 THEN n - 1 ELSE n

\* Mutant of UpdateStatsForActiveLayer: every request schedules a timeout of
\* its own, whether one is pending or not.
UpdateStatsStacks ==
    /\ stats_timer_active' = TRUE
    /\ timer_remaining' = IF stats_timer_active THEN timer_remaining ELSE StatsDelay
    /\ pending_refreshes' = pending_refreshes + 1

\* Mutant of UpdateStatsForActiveLayer: the isActive() test is missing, every
\* request restarts the timer.
UpdateStatsRestarts ==
    /\ stats_timer_active' = TRUE
    /\ timer_remaining' = StatsDelay
    /\ pending_refreshes' = IF stats_timer_active THEN pending_refreshes
                            ELSE pending_refreshes + 1

\* Mutant of UpdateStatsForActiveLayer: the request is dropped, the timer is
\* not started.
UpdateStatsDropped == UNCHANGED timerVars

\* update_stats_for_active_layer(): start the single-shot timer unless it is
\* already running.
UpdateStatsForActiveLayer ==
    IF ~stats_timer_active
    THEN /\ stats_timer_active' = TRUE
         /\ timer_remaining' = StatsDelay
         /\ pending_refreshes' = pending_refreshes + 1
    ELSE UNCHANGED timerVars

\* Bookkeeping: a refresh request caused by a mutation event joins the burst
\* being observed (its first request opens the burst).
BurstRequest ==
    /\ burst_n' = burst_n + 1
    /\ burst_age' = IF burst_n = 0 THEN 0 ELSE burst_age
    /\ burst_recomputes' = IF burst_n = 0 THEN 0 ELSE burst_recomputes
    /\ burst_fresh' = IF burst_n = 0 THEN ~stats_timer_active ELSE burst_fresh
    /\ since_request' = 0
    /\ UNCHANGED unloaded

\* Bookkeeping: a refresh request made before the observed burst.
EarlierRequest ==
    /\ since_request' = 0
    /\ UNCHANGED <<burst_n, burst_age, burst_recomputes, burst_fresh, unloaded>>

\* Bookkeeping: d ms pass; the age of the burst is followed up to the quiet
\* interval.
BurstTick(d) ==
    /\ burst_age' = IF burst_n > 0 /\ burst_age + d < StatsDelay
                    THEN burst_age + d
                    ELSE IF burst_n > 0 THEN StatsDelay ELSE burst_age
    /\ since_request' = IF since_request + d < StatsDelay
                        THEN since_request + d ELSE StatsDelay
    /\ UNCHANGED <<burst_n, burst_recomputes, burst_fresh, unloaded>>

\* Bookkeeping: a recompute ran.
BurstRecompute ==
    /\ burst_recomputes' = IF burst_n > 0 /\ burst_recomputes < MaxBurst
                           THEN burst_recomputes + 1 ELSE burst_recomputes
    /\ UNCHANGED <<burst_n, burst_age, burst_fresh, since_request, unloaded>>

\* Mutant of SyncActions: create-fields is enabled whenever tracking is on,
\* whether the fields exist or not.
SyncActionsCreateWhenTracked(layer, trk, flds) ==
    /\ toggle_checked' = (layer \in VectorIds /\ layer \in trk)
    /\ create_enabled' = (layer \in VectorIds /\ layer \in trk)
    /\ tools_enabled' = (layer \in VectorIds /\ layer \in trk
                            /\ LayerHasRequiredFields(flds, layer))

\* The part of on_layer_changed(layer) after the stats request: the toggle and
\* the tool actions follow the tracked state and the fields of `layer`.
SyncActions(layer, trk, flds) ==
    /\ toggle_checked' = (layer \in VectorIds /\ layer \in trk)
    /\ create_enabled' = (layer \in VectorIds /\ layer \in trk
                            /\ ~LayerHasRequiredFields(flds, layer))
    /\ tools_enabled' = (layer \in VectorIds /\ layer \in trk
                            /\ LayerHasRequiredFields(flds, layer))

\* on_layer_changed(layer)
OnLayerChanged(layer, trk, flds) ==
    /\ UpdateStatsForActiveLayer
    /\ SyncActions(layer, trk, flds)

(* ------------------- edit-signal wiring (popup) ----------------------- *)

\* _connect_edit_signals_for_layer(layer): the layer whose slots are
\* disconnected first, if any (the previous one, when the project still has it).
PreviousConnected ==
    IF edit_signal_connected_layer_id # NoLayer
         /\ edit_signal_connected_layer_id \in projectLayers
    THEN edit_signal_connected_layer_id
    ELSE NoLayer

\* _connect_edit_signals_for_layer(layer): connections afterwards, from the
\* connections `conn` and the connected id `cid` before.
ConnAfterConnect(conn, cid, prev, layer) ==
    IF layer \notin VectorIds \/ cid = layer
    THEN conn
    ELSE [l \in VectorIds |->
            IF l = layer THEN conn[l] + 1
            ELSE IF l = prev THEN Disconnect(conn[l])
            ELSE conn[l]]

\* _connect_edit_signals_for_layer(layer): _edit_signal_connected_layer_id
\* afterwards.
IdAfterConnect(layer) == IF layer \in VectorIds THEN layer ELSE NoLayer

(* ------------------------ watcher attach/detach ----------------------- *)

\* Mutant of CanAttach: the test of the two fields is missing.
CanAttachWithoutFields(conns, flds, layer) == layer \notin conns

\* _attach_auto_for_layer(layer): whether it connects anything.
CanAttach(conns, flds, layer) ==
    layer \notin conns /\ LayerHasRequiredFields(flds, layer)

\* _attach_auto_for_layer(layer): auto_connections afterwards.
ConnsAfterAttach(conns, flds, layer) ==
    IF CanAttach(conns, flds, layer) THEN conns \cup {layer} ELSE conns

\* Mutant of MutAfterAttach: the entry is recorded but nothing is connected.
MutAfterAttachNothing(conns, flds, layer) == mut_conn

\* _attach_auto_for_layer(layer): the layer's geometryChanged/featureAdded
\* connections afterwards.
MutAfterAttach(conns, flds, layer) ==
    IF CanAttach(conns, flds, layer)
    THEN [mut_conn EXCEPT ![layer] = @ + 1]
    ELSE mut_conn

\* Mutant of ConnsAfterDetach: the entry is not popped.
ConnsAfterDetachKept(layer) == auto_connections

\* _detach_auto_for_layer(layer): auto_connections.pop(layer.id(), None)
ConnsAfterDetach(layer) == auto_connections \ {layer}

\* Mutant of MutAfterDetach: the callbacks stay connected.
MutAfterDetachKept(layer) == mut_conn

\* _detach_auto_for_layer(layer): disconnects only what the dict held.
MutAfterDetach(layer) ==
    IF layer \in auto_connections
    THEN [mut_conn EXCEPT ![layer] = Disconnect(@)]
    ELSE mut_conn

(* --------------------------- stale id cleanup ------------------------- *)

\* Mutant of CleanupTracked: clear() in place of discard(layer_id).
CleanupTrackedClearsAll(layer_id) == {}

\* _cleanup_layer_id(layer_id): tracked_layer_ids.discard(layer_id)
CleanupTracked(layer_id) == tracked_layer_ids \ {layer_id}

\* Mutant of CleanupPrompted: the discard from the prompted set is missing.
CleanupPromptedKept(layer_id) == prompted_this_edit_session

\* _cleanup_layer_id(layer_id): _prompted_this_edit_session.discard(layer_id)
CleanupPrompted(layer_id) == prompted_this_edit_session \ {layer_id}

\* _cleanup_layer_id(layer_id): auto_connections.pop(layer_id, None)
CleanupConnections(layer_id) == auto_connections \ {layer_id}

\* _cleanup_layer_id(layer_id): the two disconnects, each in try/except.
CleanupMutConn(layer_id) ==
    IF layer_id \in auto_connections
    THEN [mut_conn EXCEPT ![layer_id] = Disconnect(@)]
    ELSE mut_conn

\* _cleanup_layer_id(layer_id): the connected id is forgotten if it is this one.
CleanupConnectedId(layer_id) ==
    IF edit_signal_connected_layer_id = layer_id
    THEN NoLayer
    ELSE edit_signal_connected_layer_id

\* _cleanup_layer_id(layer_id), the whole function (it touches no other state).
CleanupLayerId(layer_id) ==
    /\ tracked_layer_ids' = CleanupTracked(layer_id)
    /\ prompted_this_edit_session' = CleanupPrompted(layer_id)
    /\ auto_connections' = CleanupConnections(layer_id)
    /\ edit_signal_connected_layer_id' = CleanupConnectedId(layer_id)

(* ------------------------------- stats -------------------------------- *)

\* Mutant of is_null_date: no date counts as missing.
is_null_date_never(date_val) == FALSE

\* is_null_date(date_val): None or an invalid QDate.
is_null_date(date_val) == date_val = None \/ date_val = InvalidDate

\* to_qdate(date_val): the valid QDate, else None.
to_qdate(date_val) == IF date_val \in Days THEN date_val ELSE None

\* int(val) raises for a value that is no number.
IntRaises(val) == val = NotANumber

\* The counters of _update_stats_now; failed tells that an exception escaped.
ZeroCounts ==
    [total |-> 0, edited_1 |-> 0, edited_0 |-> 0, day_count |-> 0,
     null_geom |-> 0, null_attr |-> 0, failed |-> FALSE]

\* Mutant of FeatureIncrements: the `continue` after null_geom += 1 is missing,
\* so a feature without geometry is counted by its tag as well.
FeatureIncrementsNoContinue(f, selected_day) ==
    LET g == IF ~f.geom THEN 1 ELSE 0
        bad == \/ f.edited \notin {0, 1}
               \/ (f.edited = 1 /\ (f.date = None \/ f.date = InvalidDate))
        e1 == f.edited = 1 /\ ~bad
    IN [ZeroCounts EXCEPT
          !.total = 1,
          !.null_geom = g,
          !.null_attr = IF bad THEN 1 ELSE 0,
          !.edited_1 = IF e1 THEN 1 ELSE 0,
          !.edited_0 = IF f.edited = 0 THEN 1 ELSE 0,
          !.day_count = IF e1 /\ f.date = selected_day THEN 1 ELSE 0]

\* One pass of the loop body of _update_stats_now: what feature f adds to the
\* counters, by the order of the tests and their `continue`s.
FeatureIncrements(f, selected_day) ==
    LET one == [ZeroCounts EXCEPT !.total = 1] IN
    IF ~f.geom THEN [one EXCEPT !.null_geom = 1]
    ELSE IF f.edited = None THEN [one EXCEPT !.null_attr = 1]
    ELSE IF IntRaises(f.edited) THEN [one EXCEPT !.null_attr = 1]
    ELSE IF f.edited \notin {0, 1} THEN [one EXCEPT !.null_attr = 1]
    ELSE IF f.edited = 1
         THEN IF is_null_date(f.date)
              THEN [one EXCEPT !.null_attr = 1]
              ELSE [one EXCEPT
                      !.edited_1 = 1,
                      !.day_count = IF to_qdate(f.date) # None
                                         /\ to_qdate(f.date) = selected_day
                                      THEN 1 ELSE 0]
    ELSE [one EXCEPT !.edited_0 = 1]

AddCounts(a, b) ==
    [total |-> a.total + b.total,
     edited_1 |-> a.edited_1 + b.edited_1,
     edited_0 |-> a.edited_0 + b.edited_0,
     day_count |-> a.day_count + b.day_count,
     null_geom |-> a.null_geom + b.null_geom,
     null_attr |-> a.null_attr + b.null_attr,
     failed |-> a.failed \/ b.failed]

\* `for f in layer.getFeatures()`: the counters after the features from fid on.
RECURSIVE ScanFrom(_, _, _, _)
ScanFrom(feats, selected_day, fid, acc) ==
    IF fid > MaxFeat THEN acc
    ELSE ScanFrom(feats, selected_day, fid + 1,
                  IF feats[fid] = NoFeature THEN acc
                  ELSE AddCounts(acc, FeatureIncrements(feats[fid], selected_day)))

\* What is published without a scan.
NoCounts(kind) ==
    [kind |-> kind, day |-> 0, counts |-> ZeroCounts]

\* The counts the loop of _update_stats_now ends with, as published.
ScanLayer(feats, selected_day) ==
    LET counts == ScanFrom(feats, selected_day, 1, ZeroCounts)
    IN [kind |-> IF counts.failed THEN "error" ELSE "stats",
        day |-> selected_day,
        counts |-> counts]

\* Mutant of UpdateStatsNow: the tests of the tracked set and of the two
\* fields are missing, every active vector layer is scanned.
UpdateStatsNowScansAnyVector ==
    IF activeLayer = NoLayer THEN NoCounts("no_layer")
    ELSE IF activeLayer \notin VectorIds THEN NoCounts("non_vector")
    ELSE ScanLayer(features[activeLayer], day_date)

\* _update_stats_now(): what it publishes in stats_label.
UpdateStatsNow ==
    IF activeLayer = NoLayer THEN NoCounts("no_layer")
    ELSE IF activeLayer \notin VectorIds THEN NoCounts("non_vector")
    ELSE IF activeLayer \notin tracked_layer_ids THEN NoCounts("tracking_off")
    ELSE IF ~LayerHasRequiredFields(layerFields, activeLayer)
         THEN NoCounts("fields_missing")
    ELSE ScanLayer(features[activeLayer], day_date)

(* ------------------------- session prompt ----------------------------- *)

\* Mutant of PromptDue: the test of the tracked set is missing.
PromptDueWhenTracked ==
    /\ ActiveVectorLayer # NoLayer
    /\ ActiveVectorLayer \notin prompted_this_edit_session
    /\ LayerHasRequiredFields(layerFields, ActiveVectorLayer)
    /\ IsPreviouslyTracked(ActiveVectorLayer)

\* Mutant of PromptDue: the test of the stored sources is missing.
PromptDueAnySource ==
    /\ ActiveVectorLayer # NoLayer
    /\ ActiveVectorLayer \notin tracked_layer_ids
    /\ ActiveVectorLayer \notin prompted_this_edit_session
    /\ LayerHasRequiredFields(layerFields, ActiveVectorLayer)

\* _on_layer_editing_started(): the tests before the popup.  The slot takes
\* the ACTIVE layer, whichever layer emitted the signal.
PromptDue ==
    /\ ActiveVectorLayer # NoLayer
    /\ ActiveVectorLayer \notin tracked_layer_ids
    /\ ActiveVectorLayer \notin prompted_this_edit_session
    /\ LayerHasRequiredFields(layerFields, ActiveVectorLayer)
    /\ IsPreviouslyTracked(ActiveVectorLayer)

\* Mutant of PromptedAfterEditingStopped: clear() in place of discard(id).
PromptedAfterEditingStoppedCleared == {}

\* _on_layer_editing_stopped(): _prompted_this_edit_session afterwards.  The
\* slot takes the ACTIVE layer too.
PromptedAfterEditingStopped ==
    IF ActiveVectorLayer = NoLayer
    THEN prompted_this_edit_session
    ELSE prompted_this_edit_session \ {ActiveVectorLayer}

\* Mutant of Accepted: the comparison is inverted, the No answer enables.
AcceptedOnNo(reply) == ~reply

\* Mutant of Accepted: the answer is not looked at.
AcceptedAlways(reply) == TRUE

\* _on_layer_editing_started(): `reply == QMessageBox.Yes`.
Accepted(reply) == reply

\* Bookkeeping: the prompts of `shown` counted for the session of an id, after
\* the session of `started` began.
CountPrompt(started, shown) ==
    [l \in VectorIds |->
        LET base == IF l = started THEN 0 ELSE prompt_count[l]
        IN IF l = shown /\ (isEditable[l] \/ l = started)
           THEN (IF base < MaxPrompts THEN base + 1 ELSE base)
           ELSE base]

(* ------------------------------ host events --------------------------- *)

\* The host adds a vector layer to the project.
AddLayer(l, src, flds) ==
    /\ removing = NoLayer
    /\ l \notin projectLayers
    /\ projectLayers' = projectLayers \cup {l}
    /\ layerSource' = [layerSource EXCEPT ![l] = src]
    /\ layerFields' = [layerFields EXCEPT ![l] = flds]
    /\ UNCHANGED <<activeLayer, isEditable, features, selected, currentDate, edit_conn,
                   mut_conn, registryVars, timerVars, uiVars, statsVars,
                   removing, sessionAux>>

\* iface.currentLayerChanged(layer): on_layer_changed, then
\* _connect_edit_signals_for_layer (the order initGui connects them in).
CurrentLayerChanged(layer) ==
    /\ removing = NoLayer
    /\ layer # activeLayer
    /\ layer \in projectLayers \cup {RasterId, NoLayer}
    /\ activeLayer' = layer
    /\ OnLayerChanged(layer, tracked_layer_ids, layerFields)
    /\ edit_conn' = ConnAfterConnect(edit_conn, edit_signal_connected_layer_id,
                                     PreviousConnected, layer)
    /\ \A l \in VectorIds : edit_conn'[l] <= MaxConn
    /\ edit_signal_connected_layer_id' = IdAfterConnect(layer)
    /\ UNCHANGED <<projectLayers, isEditable, layerFields, layerSource, features, selected,
                   currentDate, mut_conn, tracked_layer_ids, auto_connections,
                   prompted_this_edit_session, tracked_sources, statsVars,
                   removing, sessionAux>>

\* layer l enters an editing session; editingStarted(l) runs
\* _on_layer_editing_started once per connection.  A second run of the slot in
\* the same emission returns at its first tests (the id is tracked or prompted
\* by then, or nothing changed), so one run stands for all of them.
StartEditing(l, reply) ==
    /\ removing = NoLayer
    /\ l \in projectLayers
    /\ ~isEditable[l]
    /\ isEditable' = [isEditable EXCEPT ![l] = TRUE]
    /\ IF edit_conn[l] > 0 /\ PromptDue
       THEN /\ prompted_this_edit_session' =
                    prompted_this_edit_session \cup {ActiveVectorLayer}
            /\ prompt_count' = CountPrompt(l, ActiveVectorLayer)
            /\ IF Accepted(reply)
               THEN /\ tracked_layer_ids' = tracked_layer_ids \cup {ActiveVectorLayer}
                    /\ auto_connections' =
                         ConnsAfterAttach(auto_connections, layerFields, ActiveVectorLayer)
                    /\ mut_conn' =
                         MutAfterAttach(auto_connections, layerFields, ActiveVectorLayer)
                    /\ OnLayerChanged(ActiveVectorLayer, tracked_layer_ids', layerFields)
               ELSE UNCHANGED <<tracked_layer_ids, auto_connections, mut_conn,
                                timerVars, uiVars>>
       ELSE /\ prompt_count' = CountPrompt(l, NoLayer)
            /\ UNCHANGED <<prompted_this_edit_session, tracked_layer_ids,
                           auto_connections, mut_conn, timerVars, uiVars>>
    /\ UNCHANGED <<activeLayer, projectLayers, layerFields, layerSource, features, selected,
                   currentDate, edit_conn, tracked_sources,
                   edit_signal_connected_layer_id, statsVars, removing,
                   session_stopped>>

\* layer l leaves its editing session; editingStopped(l) runs
\* _on_layer_editing_stopped if the plugin is connected to l.
StopEditing(l) ==
    /\ removing = NoLayer
    /\ l \in projectLayers
    /\ isEditable[l]
    /\ isEditable' = [isEditable EXCEPT ![l] = FALSE]
    /\ prompt_count' = [prompt_count EXCEPT ![l] = 0]
    /\ session_stopped' = session_stopped \cup {l}
    /\ IF edit_conn[l] > 0 /\ ActiveVectorLayer # NoLayer
       THEN /\ prompted_this_edit_session' = PromptedAfterEditingStopped
            /\ UpdateStatsForActiveLayer
       ELSE UNCHANGED <<prompted_this_edit_session, timerVars>>
    /\ UNCHANGED <<activeLayer, projectLayers, layerFields, layerSource, features, selected,
                   currentDate, edit_conn, mut_conn, tracked_layer_ids,
                   auto_connections, tracked_sources,
                   edit_signal_connected_layer_id, uiVars, statsVars, removing>>

\* QgsProject.layersWillBeRemoved([l]): _on_layers_will_be_removed.
LayersWillBeRemoved(l) ==
    /\ removing = NoLayer
    /\ l \in projectLayers
    /\ removing' = l
    /\ CleanupLayerId(l)
    /\ mut_conn' = CleanupMutConn(l)
    /\ UNCHANGED <<activeLayer, projectLayers, isEditable, layerFields, layerSource,
                   features, selected, currentDate, edit_conn, tracked_sources, timerVars,
                   uiVars, statsVars, sessionAux>>

\* QgsProject.layerWillBeRemoved(l), the second notification of the same
\* removal: _on_layer_will_be_removed.  The host then deletes the layer, and
\* when it was the active one another layer (or none) becomes active.
LayerWillBeRemoved(next) ==
    /\ removing # NoLayer
    /\ removing' = NoLayer
    /\ tracked_layer_ids' = CleanupTracked(removing)
    /\ prompted_this_edit_session' = CleanupPrompted(removing)
    /\ auto_connections' = CleanupConnections(removing)
    /\ projectLayers' = projectLayers \ {removing}
    /\ isEditable' = [isEditable EXCEPT ![removing] = FALSE]
    /\ layerFields' = [layerFields EXCEPT ![removing] = {}]
    /\ layerSource' = [layerSource EXCEPT ![removing] = CHOOSE s \in Sources : TRUE]
    /\ features' = [features EXCEPT ![removing] = [fid \in Fids |-> NoFeature]]
    /\ selected' = [selected EXCEPT ![removing] = {}]
    /\ mut_conn' = [CleanupMutConn(removing) EXCEPT ![removing] = 0]
    /\ prompt_count' = [prompt_count EXCEPT ![removing] = 0]
    /\ session_stopped' = session_stopped \ {removing}
    /\ next \in (projectLayers \ {removing}) \cup {RasterId, NoLayer}
    /\ IF activeLayer = removing
       THEN /\ activeLayer' = next
            /\ OnLayerChanged(next, tracked_layer_ids', layerFields')
            /\ edit_conn' = [ConnAfterConnect(edit_conn, CleanupConnectedId(removing),
                                              PreviousConnected, next)
                             EXCEPT ![removing] = 0]
            /\ edit_signal_connected_layer_id' = IdAfterConnect(next)
       ELSE /\ next = NoLayer
            /\ edit_conn' = [edit_conn EXCEPT ![removing] = 0]
            /\ edit_signal_connected_layer_id' = CleanupConnectedId(removing)
            /\ UNCHANGED <<activeLayer, timerVars, uiVars>>
    /\ \A l \in VectorIds : edit_conn'[l] <= MaxConn
    /\ UNCHANGED <<currentDate, tracked_sources, statsVars>>

(* -------------------------- mutation callbacks ------------------------ *)

\* Mutant of NeedsStamp: the test of the old value is missing, every geometry
\* change stamps.
NeedsStampAlways(val) == TRUE

\* Mutant of NeedsStamp: `is None` in place of `in (None, 0)`.
NeedsStampNullOnly(val) == val = None

\* mark_feature_edited: `f[edited_idx] in (None, 0)`.
NeedsStamp(val) == val \in {None, 0}

\* mark_feature_edited(fid, geom) on a feature.
MarkFeatureEdited(f) ==
    IF NeedsStamp(f.edited)
    THEN [f EXCEPT !.edited = 1, !.date = currentDate]
    ELSE f

\* Mutant of MarkFeatureAdded: stamps like mark_feature_edited, only when the
\* tag is NULL or 0.
MarkFeatureAddedIfUnset(f) ==
    IF f.edited \in {None, 0}
    THEN [f EXCEPT !.edited = 1, !.date = currentDate]
    ELSE f

\* mark_feature_added(fid) on a feature.
MarkFeatureAdded(f) == [f EXCEPT !.edited = 1, !.date = currentDate]

\* Mutant of ConnectedAtCommit: the commit is placed before
\* _detach_auto_for_layer.
ConnectedAtCommitBeforeDetach(layer) == mut_conn[layer] > 0

\* toggle_tracking_for_active_layer(False): whether callbacks of the layer are
\* connected while layer.commitChanges() runs, which is after
\* _detach_auto_for_layer(layer).
ConnectedAtCommit(layer) == MutAfterDetach(layer)[layer] > 0

\* The features of the layers after a successful commitChanges() of `layer`
\* that notifies featureAdded for the features `notified` (those the session
\* added get their permanent ids): a connected add_fn stamps them.
FeaturesAfterCommit(layer, notified) ==
    IF ConnectedAtCommit(layer)
    THEN [features EXCEPT
            ![layer] = [fid \in Fids |->
                          IF fid \in notified /\ features[layer][fid] # NoFeature
                          THEN MarkFeatureAdded(features[layer][fid])
                          ELSE features[layer][fid]]]
    ELSE features

(* ------------------------------ user actions -------------------------- *)

\* Mutant of TrackedAtStartEditing: layer.startEditing() is called before
\* tracked_layer_ids.add(layer.id()).
TrackedAtStartEditingBefore(layer) == tracked_layer_ids

\* toggle_tracking_for_active_layer(True): the tracked set at the moment of
\* layer.startEditing(), which follows tracked_layer_ids.add(layer.id()).
TrackedAtStartEditing(layer) == tracked_layer_ids \cup {layer}

\* Whether the editingStarted that layer.startEditing() of the toggle emits
\* gets _on_layer_editing_started past its tests, to the popup: the slot is
\* connected, the id is neither tracked nor prompted by then, the fields
\* exist and the source is stored (it was saved just before).
PromptDuringEnable(layer) ==
    /\ ~isEditable[layer]
    /\ edit_conn[layer] > 0
    /\ layer \notin TrackedAtStartEditing(layer)
    /\ layer \notin prompted_this_edit_session
    /\ LayerHasRequiredFields(layerFields, layer)
    /\ layerSource[layer] \in SaveTrackedSource(layer)

\* Mutant of FieldsAfterEnable: enabling creates the fields the layer lacks.
FieldsAfterEnableCreated(layer) ==
    [layerFields EXCEPT ![layer] = RequiredFields]

\* toggle_tracking_for_active_layer(True) on a layer that lacks a field: an
\* info message asks for Create Edited Fields, the fields are left alone.
FieldsAfterEnable(layer) == layerFields

\* Mutant of TrackedAfterToggleOff: the id is only discarded when the commit
\* did not fail.
TrackedAfterToggleOffIfCommitted(layer, commit_ok) ==
    IF isEditable[layer] /\ ~commit_ok
    THEN tracked_layer_ids
    ELSE tracked_layer_ids \ {layer}

\* toggle_tracking_for_active_layer(False): tracked_layer_ids.discard(layer.id())
\* runs before the commit, whatever the commit returns.
TrackedAfterToggleOff(layer, commit_ok) == tracked_layer_ids \ {layer}

\* toggle_tracking_for_active_layer(checked): the user clicks the checkable
\* Auto Edit action, so `checked` is the opposite of its state.  commit_ok is
\* what layer.commitChanges() returns when tracking is switched off.
ToggleTracking(commit_ok) ==
    LET layer == ActiveVectorLayer
        checked == ~toggle_checked
    IN
    /\ removing = NoLayer
    /\ IF layer = NoLayer
       THEN /\ toggle_checked' = FALSE
            /\ UNCHANGED <<isEditable, layerFields, features, mut_conn, registryVars,
                           timerVars,
                           create_enabled, tools_enabled, sessionAux>>
       ELSE IF checked
       THEN /\ tracked_layer_ids' = tracked_layer_ids \cup {layer}
            /\ tracked_sources' = SaveTrackedSource(layer)
            \* layer.startEditing(): the editingStarted it emits finds the id
            \* tracked and returns.
            /\ isEditable' = [isEditable EXCEPT ![layer] = TRUE]
            /\ prompt_count' = IF isEditable[layer] THEN prompt_count
                               ELSE CountPrompt(layer,
                                                IF PromptDuringEnable(layer)
                                                THEN layer ELSE NoLayer)
            /\ prompted_this_edit_session' =
                    IF PromptDuringEnable(layer)
                    THEN prompted_this_edit_session \cup {layer}
                    ELSE prompted_this_edit_session
            /\ layerFields' = FieldsAfterEnable(layer)
            /\ auto_connections' = ConnsAfterAttach(auto_connections, layerFields', layer)
            /\ mut_conn' = MutAfterAttach(auto_connections, layerFields', layer)
            /\ OnLayerChanged(layer, tracked_layer_ids', layerFields')
            /\ UNCHANGED <<features, edit_signal_connected_layer_id,
                           session_stopped>>
       ELSE /\ tracked_layer_ids' = TrackedAfterToggleOff(layer, commit_ok)
            /\ auto_connections' = ConnsAfterDetach(layer)
            /\ mut_conn' = MutAfterDetach(layer)
            \* layer.commitChanges(): on success the session ends and the
            \* editingStopped it emits runs _on_layer_editing_stopped.
            /\ IF isEditable[layer] /\ commit_ok
               THEN /\ isEditable' = [isEditable EXCEPT ![layer] = FALSE]
                    /\ \E notified \in SUBSET Fids :
                          features' = FeaturesAfterCommit(layer, notified)
                    /\ prompt_count' = [prompt_count EXCEPT ![layer] = 0]
                    /\ session_stopped' = session_stopped \cup {layer}
                    /\ prompted_this_edit_session' =
                         IF edit_conn[layer] > 0 THEN PromptedAfterEditingStopped
                         ELSE prompted_this_edit_session
               ELSE UNCHANGED <<isEditable, features, prompted_this_edit_session,
                                sessionAux>>
            /\ OnLayerChanged(layer, tracked_layer_ids', layerFields)
            /\ UNCHANGED <<layerFields, tracked_sources,
                           edit_signal_connected_layer_id>>
    /\ UNCHANGED <<activeLayer, projectLayers, layerSource, selected,
                   currentDate, edit_conn, statsVars, removing>>

\* Mutant of NewFields: both fields are appended without the indexFromName
\* tests.
NewFieldsBoth(flds) == <<EDIT_FIELD, DATE_FIELD>>

\* create_edited_fields: new_fields, the list handed to pr.addAttributes().
NewFields(flds) ==
    (IF EDIT_FIELD \notin flds THEN <<EDIT_FIELD>> ELSE << >>)
        \o (IF DATE_FIELD \notin flds THEN <<DATE_FIELD>> ELSE << >>)

\* The number of attributes of the layer after pr.addAttributes(new_fields):
\* the provider appends one attribute per entry of the list.
AttributeCountAfterCreate(flds) == Cardinality(flds) + Len(NewFields(flds))

\* The fields of a layer after create_edited_fields added the missing ones.
FieldsAfterCreate(flds) ==
    flds \cup {NewFields(flds)[i] : i \in 1..Len(NewFields(flds))}

\* create_edited_fields: "initialize all features".
InitializedFeatures(feats) ==
    [fid \in Fids |->
        IF feats[fid] = NoFeature THEN NoFeature
        ELSE [feats[fid] EXCEPT !.edited = 0, !.date = None]]

\* create_edited_fields().
create_edited_fields ==
    LET layer == ActiveVectorLayer IN
    /\ removing = NoLayer
    /\ IF layer = NoLayer \/ layer \notin tracked_layer_ids
       THEN UNCHANGED <<isEditable, layerFields, features, mut_conn,
                        auto_connections, timerVars, uiVars, prompt_count>>
       ELSE /\ isEditable' = [isEditable EXCEPT ![layer] = TRUE]
            /\ prompt_count' = IF isEditable[layer] THEN prompt_count
                               ELSE CountPrompt(layer, NoLayer)
            /\ layerFields' = [layerFields EXCEPT ![layer] = FieldsAfterCreate(@)]
            /\ features' = [features EXCEPT ![layer] = InitializedFeatures(@)]
            /\ auto_connections' = ConnsAfterAttach(auto_connections, layerFields', layer)
            /\ mut_conn' = MutAfterAttach(auto_connections, layerFields', layer)
            /\ OnLayerChanged(layer, tracked_layer_ids, layerFields')
    /\ UNCHANGED <<activeLayer, projectLayers, layerSource, selected, currentDate,
                   edit_conn,
                   tracked_layer_ids, prompted_this_edit_session, tracked_sources,
                   edit_signal_connected_layer_id, statsVars, removing,
                   session_stopped>>

\* The Create Edited Fields action triggers create_edited_fields(); the
\* action must be enabled.
CreateEditedFields ==
    create_enabled /\ create_edited_fields

\* Mutant of MutAfterUnload: the dict is cleared without disconnecting.
MutAfterUnloadKept == mut_conn

\* unload(): geom_fn and add_fn of every entry of auto_connections are
\* disconnected, each inside try/except.
MutAfterUnload ==
    [l \in VectorIds |->
        IF l \in auto_connections THEN Disconnect(mut_conn[l]) ELSE mut_conn[l]]

\* unload(): the callbacks of every binding are disconnected and the three
\* registries cleared; the slots of the editing signals are not disconnected,
\* the stats timer is not stopped and the settings are not touched.  The
\* toolbar and the dock are removed.
Unload ==
    /\ removing = NoLayer
    /\ ~unloaded
    /\ unloaded' = TRUE
    /\ mut_conn' = MutAfterUnload
    /\ auto_connections' = {}
    /\ tracked_layer_ids' = {}
    /\ prompted_this_edit_session' = {}
    /\ UNCHANGED <<activeLayer, projectLayers, isEditable, layerFields, layerSource,
                   features, selected, currentDate, edit_conn, tracked_sources,
                   edit_signal_connected_layer_id, timerVars, uiVars, statsVars,
                   removing, sessionAux, burst_n, burst_age, burst_recomputes,
                   burst_fresh, since_request>>

\* The Refresh Stats action: update_stats_for_active_layer.
RefreshStats ==
    /\ removing = NoLayer
    /\ UpdateStatsForActiveLayer
    /\ UNCHANGED <<hostVars, registryVars, uiVars, statsVars, removing, sessionAux>>

\* The user picks another day in day_date_edit: dateChanged requests a refresh.
SetDayDate(d) ==
    /\ removing = NoLayer
    /\ d # day_date
    /\ day_date' = d
    /\ UpdateStatsForActiveLayer
    /\ UNCHANGED <<hostVars, registryVars, uiVars, stats_label, removing, sessionAux>>

(* --------------------------- field lookups ---------------------------- *)

\* The layers whose fields() a handler consults, by the tests the handler
\* makes before the lookup.

\* Mutant of FieldsLookupOnLayerChanged: the isinstance test is missing, any
\* layer that is not None is taken for a vector layer.
FieldsLookupOnLayerChangedAnyLayer(layer) ==
    IF layer = NoLayer THEN {} ELSE {layer}

\* on_layer_changed(layer): vlayer is the layer if it is a QgsVectorLayer,
\* and _layer_has_required_fields(vlayer) runs only for a vlayer.
FieldsLookupOnLayerChanged(layer) ==
    IF layer \in VectorIds THEN {layer} ELSE {}

\* _on_layer_editing_started(): the lookup follows the tests of the active
\* vector layer, the tracked set and the prompted set.
FieldsLookupOnEditingStarted ==
    IF \/ ActiveVectorLayer = NoLayer
       \/ ActiveVectorLayer \in tracked_layer_ids
       \/ ActiveVectorLayer \in prompted_this_edit_session
    THEN {}
    ELSE {ActiveVectorLayer}

\* toggle_tracking_for_active_layer(checked): past the first test the lookup
\* happens on enabling and in the closing on_layer_changed(layer).
FieldsLookupOnToggle ==
    IF ActiveVectorLayer = NoLayer THEN {}
    ELSE {ActiveVectorLayer} \cup FieldsLookupOnLayerChanged(ActiveVectorLayer)

\* create_edited_fields and the tools: the lookup follows the tests of the
\* active vector layer and of the tracked set.
FieldsLookupOnTool ==
    IF ActiveVectorLayer = NoLayer \/ ActiveVectorLayer \notin tracked_layer_ids
    THEN {}
    ELSE {ActiveVectorLayer}

\* _update_stats_now(): the lookup follows the tests of no layer, of
\* isinstance and of the tracked set.
FieldsLookupOnStats ==
    IF activeLayer = NoLayer THEN {}
    ELSE IF activeLayer \notin VectorIds THEN {}
    ELSE IF activeLayer \notin tracked_layer_ids THEN {}
    ELSE {activeLayer}

(* ------------------------------- tools -------------------------------- *)

\* The user selects features of layer l in the map or the attribute table.
SelectFeatures(l, ids) ==
    /\ removing = NoLayer
    /\ l \in projectLayers
    /\ ids \subseteq {fid \in Fids : features[l][fid] # NoFeature}
    /\ ids # selected[l]
    /\ selected' = [selected EXCEPT ![l] = ids]
    /\ UNCHANGED <<activeLayer, projectLayers, isEditable, layerFields, layerSource,
                   features, currentDate, edit_conn, mut_conn, registryVars,
                   timerVars, uiVars, statsVars, removing, sessionAux>>

\* Mutant of ToolReady: the test of the tracked set is missing.
ToolReadyUntracked(layer) ==
    /\ layer # NoLayer
    /\ LayerHasRequiredFields(layerFields, layer)

\* The first test of mark_selected_as_edited, update_date_for_selected and
\* select_null_attributes: an active vector layer that is tracked and has both
\* fields.
ToolReady(layer) ==
    /\ layer # NoLayer
    /\ layer \in tracked_layer_ids
    /\ LayerHasRequiredFields(layerFields, layer)

\* `if not layer.isEditable(): layer.startEditing()` of a tool: the
\* editingStarted it emits finds the active layer tracked and returns.
ToolStartsEditing(layer) ==
    /\ isEditable' = [isEditable EXCEPT ![layer] = TRUE]
    /\ prompt_count' = IF isEditable[layer] THEN prompt_count
                       ELSE CountPrompt(layer, NoLayer)

\* mark_selected_as_edited: the loop body on one selected feature.
MarkSelectedFeature(f) ==
    IF f.edited \in {None, 0}
    THEN [f EXCEPT !.edited = 1, !.date = currentDate]
    ELSE f

\* mark_selected_as_edited().
mark_selected_as_edited ==
    LET layer == ActiveVectorLayer IN
    /\ removing = NoLayer
    /\ IF ~ToolReady(layer) \/ selected[layer] = {}
       THEN UNCHANGED <<isEditable, features, timerVars, prompt_count>>
       ELSE /\ ToolStartsEditing(layer)
            /\ features' = [features EXCEPT ![layer] =
                              [fid \in Fids |->
                                 IF fid \in selected[layer]
                                 THEN MarkSelectedFeature(@[fid]) ELSE @[fid]]]
            /\ UpdateStatsForActiveLayer
    /\ UNCHANGED <<activeLayer, projectLayers, layerFields, layerSource, selected,
                   currentDate, edit_conn, mut_conn, registryVars, uiVars,
                   statsVars, removing, session_stopped>>

\* The Mark Selected Edited action triggers mark_selected_as_edited(); the
\* action must be enabled.
MarkSelectedAsEdited ==
    tools_enabled /\ mark_selected_as_edited

\* Mutant of UpdateDateFeature: the date is written, the tag is not.
UpdateDateFeatureDateOnly(f, sel_date) ==
    IF ~f.geom THEN f
    ELSE [f EXCEPT !.date = sel_date]

\* update_date_for_selected: the loop body on one selected feature.
UpdateDateFeature(f, sel_date) ==
    IF ~f.geom THEN f
    ELSE [f EXCEPT !.edited = 1, !.date = sel_date]

\* update_date_for_selected(); the user accepts the calendar dialog with
\* sel_date or cancels it.
update_date_for_selected(accepted, sel_date) ==
    LET layer == ActiveVectorLayer IN
    /\ removing = NoLayer
    /\ IF ~ToolReady(layer) \/ selected[layer] = {} \/ ~accepted
       THEN UNCHANGED <<isEditable, features, timerVars, prompt_count>>
       ELSE /\ ToolStartsEditing(layer)
            /\ features' = [features EXCEPT ![layer] =
                              [fid \in Fids |->
                                 IF fid \in selected[layer]
                                 THEN UpdateDateFeature(@[fid], sel_date) ELSE @[fid]]]
            /\ UpdateStatsForActiveLayer
    /\ UNCHANGED <<activeLayer, projectLayers, layerFields, layerSource, selected,
                   currentDate, edit_conn, mut_conn, registryVars, uiVars,
                   statsVars, removing, session_stopped>>

\* The Update Date action triggers update_date_for_selected(); the action
\* must be enabled.
UpdateDateForSelected(accepted, sel_date) ==
    tools_enabled /\ update_date_for_selected(accepted, sel_date)

\* remove_null_geometry: the ids of the features without geometry.
NullGeometryIds(feats) ==
    {fid \in Fids : feats[fid] # NoFeature /\ ~feats[fid].geom}

\* remove_null_geometry().  The host drops a deleted feature from the
\* selection.
remove_null_geometry ==
    LET layer == ActiveVectorLayer IN
    /\ removing = NoLayer
    /\ IF layer = NoLayer \/ layer \notin tracked_layer_ids
       THEN UNCHANGED <<isEditable, features, selected, timerVars, prompt_count>>
       ELSE /\ ToolStartsEditing(layer)
            /\ features' = [features EXCEPT ![layer] =
                              [fid \in Fids |->
                                 IF fid \in NullGeometryIds(features[layer])
                                 THEN NoFeature ELSE @[fid]]]
            /\ selected' = [selected EXCEPT ![layer] =
                              @ \ NullGeometryIds(features[layer])]
            /\ UpdateStatsForActiveLayer
    /\ UNCHANGED <<activeLayer, projectLayers, layerFields, layerSource,
                   currentDate, edit_conn, mut_conn, registryVars, uiVars,
                   statsVars, removing, session_stopped>>

\* The Remove NULL Geometry action triggers remove_null_geometry(); the
\* action must be enabled.
RemoveNullGeometry ==
    tools_enabled /\ remove_null_geometry

\* Mutant of IsNullAttribute: the `continue` for a feature without geometry
\* is missing.
IsNullAttributeAnyGeometry(f) ==
    IF f.edited = None THEN TRUE
    ELSE IF IntRaises(f.edited) THEN TRUE
    ELSE IF f.edited \notin {0, 1} THEN TRUE
    ELSE f.edited = 1 /\ is_null_date(f.date)

\* select_null_attributes: whether the loop appends the feature to null_ids,
\* by the order of its tests.
IsNullAttribute(f) ==
    IF ~f.geom THEN FALSE
    ELSE IF f.edited = None THEN TRUE
    ELSE IF IntRaises(f.edited) THEN TRUE
    ELSE IF f.edited \notin {0, 1} THEN TRUE
    ELSE f.edited = 1 /\ is_null_date(f.date)

\* select_null_attributes: null_ids.
NullAttributeIds(feats) ==
    {fid \in Fids : feats[fid] # NoFeature /\ IsNullAttribute(feats[fid])}

\* select_null_attributes(): removeSelection(), then selectByIds(null_ids) if
\* there are any.
select_null_attributes ==
    LET layer == ActiveVectorLayer IN
    /\ removing = NoLayer
    /\ IF ~ToolReady(layer)
       THEN UNCHANGED selected
       ELSE selected' = [selected EXCEPT ![layer] = NullAttributeIds(features[layer])]
    /\ UNCHANGED <<activeLayer, projectLayers, isEditable, layerFields, layerSource,
                   features, currentDate, edit_conn, mut_conn, registryVars,
                   timerVars, uiVars, statsVars, removing, sessionAux>>

\* The Select NULL Attributes action triggers select_null_attributes(); the
\* action must be enabled.
SelectNullAttributes ==
    tools_enabled /\ select_null_attributes

(* ----------------------------- mutation events ------------------------ *)

\* The user changes the geometry of feature fid of layer l (possible in an
\* editing session only); geometryChanged runs the connected geom_fn.
GeometryChanged(l, fid, geom) ==
    /\ removing = NoLayer
    /\ l \in projectLayers
    /\ isEditable[l]
    /\ features[l][fid] # NoFeature
    /\ LET moved == [features[l][fid] EXCEPT !.geom = geom]
       IN IF mut_conn[l] > 0
          THEN /\ features' = [features EXCEPT ![l][fid] = MarkFeatureEdited(moved)]
               /\ UpdateStatsForActiveLayer
          ELSE /\ features' = [features EXCEPT ![l][fid] = moved]
               /\ UNCHANGED timerVars
    /\ UNCHANGED <<activeLayer, projectLayers, isEditable, layerFields, layerSource,
                   selected, currentDate, edit_conn, mut_conn, registryVars, uiVars,
                   statsVars, removing, sessionAux>>

\* The features a layer with the fields flds can hold: a field the layer does
\* not have carries no value.
FeaturesFor(flds) ==
    {f \in Feature : /\ (EDIT_FIELD \notin flds => f.edited = None)
                     /\ (DATE_FIELD \notin flds => f.date = None)}

\* The user adds feature f as fid to layer l; featureAdded runs the connected
\* add_fn.
FeatureAdded(l, fid, f) ==
    /\ removing = NoLayer
    /\ l \in projectLayers
    /\ f \in FeaturesFor(layerFields[l])
    /\ isEditable[l]
    /\ features[l][fid] = NoFeature
    /\ IF mut_conn[l] > 0
       THEN /\ features' = [features EXCEPT ![l][fid] = MarkFeatureAdded(f)]
            /\ UpdateStatsForActiveLayer
       ELSE /\ features' = [features EXCEPT ![l][fid] = f]
            /\ UNCHANGED timerVars
    /\ UNCHANGED <<activeLayer, projectLayers, isEditable, layerFields, layerSource,
                   selected, currentDate, edit_conn, mut_conn, registryVars, uiVars,
                   statsVars, removing, sessionAux>>

\* Midnight passes.
NextDay ==
    /\ currentDate < MaxDay
    /\ currentDate' = currentDate + 1
    /\ UNCHANGED <<activeLayer, projectLayers, isEditable, layerFields, layerSource,
                   features, selected, edit_conn, mut_conn, registryVars, timerVars, uiVars,
                   statsVars, removing, sessionAux>>

(* -------------------------------- timer ------------------------------- *)

\* Mutant of SingleShot: setSingleShot(True) is missing, the timer repeats.
NotSingleShot == FALSE

\* __init__: self._stats_timer.setSingleShot(True)
SingleShot == TRUE

\* d ms pass: a running timer comes d ms closer to its timeout.
Tick(d) ==
    /\ timer_remaining' = IF stats_timer_active /\ timer_remaining > d
                          THEN timer_remaining - d ELSE 0
    /\ UNCHANGED <<hostVars, registryVars, stats_timer_active, pending_refreshes,
                   uiVars, statsVars, removing, sessionAux>>

\* The stats timer times out (not before its delay has passed, possibly
\* later): _update_stats_now.
StatsTimeout ==
    /\ removing = NoLayer
    /\ stats_timer_active
    /\ timer_remaining = 0
    /\ stats_timer_active' = ~SingleShot
    /\ timer_remaining' = IF SingleShot THEN 0 ELSE StatsDelay
    /\ pending_refreshes' = IF SingleShot THEN pending_refreshes - 1
                            ELSE pending_refreshes
    /\ stats_label' = UpdateStatsNow
    /\ UNCHANGED <<hostVars, registryVars, uiVars, day_date, removing, sessionAux>>

(* --------------------------- specifications --------------------------- *)

NoFeatures == [l \in VectorIds |-> [fid \in Fids |-> NoFeature]]

\* The state right after initGui() in a project without vector layers: the
\* settings hold whatever earlier runs saved, the stats timer was started by
\* create_stats_dock, and on_layer_changed(None) disabled the actions.
InitPlugin ==
    /\ tracked_layer_ids = {}
    /\ auto_connections = {}
    /\ prompted_this_edit_session = {}
    /\ tracked_sources \in SUBSET Sources
    /\ stats_timer_active = TRUE
    /\ timer_remaining = StatsDelay
    /\ pending_refreshes = 1
    /\ stats_label = NoCounts("no_layer")
    /\ removing = NoLayer
    /\ prompt_count = [l \in VectorIds |-> 0]
    /\ session_stopped = {}
    /\ burst_n = 0
    /\ burst_age = 0
    /\ burst_recomputes = 0
    /\ burst_fresh = FALSE
    /\ unloaded = FALSE
    /\ since_request = 0

Init ==
    /\ InitPlugin
    /\ activeLayer = NoLayer
    /\ projectLayers = {}
    /\ isEditable = [l \in VectorIds |-> FALSE]
    /\ layerFields = [l \in VectorIds |-> {}]
    /\ layerSource = [l \in VectorIds |-> CHOOSE s \in Sources : TRUE]
    /\ features = NoFeatures
    /\ selected = [l \in VectorIds |-> {}]
    /\ currentDate = 1
    /\ day_date = 1
    /\ edit_conn = [l \in VectorIds |-> 0]
    /\ mut_conn = [l \in VectorIds |-> 0]
    /\ edit_signal_connected_layer_id = NoLayer
    /\ toggle_checked = FALSE
    /\ create_enabled = FALSE
    /\ tools_enabled = FALSE

\* The field sets a layer is loaded with.
LoadableFields == {{}, RequiredFields}

\* The tracking registry and the editing sessions of two vector layers and a
\* raster layer.  No features are loaded and the stats timer started by
\* initGui stays pending: neither is read by the registry or the session slots.
Next ==
    \/ \E l \in VectorIds, src \in Sources, flds \in LoadableFields :
            AddLayer(l, src, flds) /\ UNCHANGED burstAux
    \/ \E layer \in VectorIds \cup {RasterId, NoLayer} :
            CurrentLayerChanged(layer) /\ UNCHANGED burstAux
    \/ \E l \in VectorIds, reply \in BOOLEAN :
            StartEditing(l, reply) /\ UNCHANGED burstAux
    \/ \E l \in VectorIds : StopEditing(l) /\ UNCHANGED burstAux
    \/ \E l \in VectorIds : LayersWillBeRemoved(l) /\ UNCHANGED burstAux
    \/ \E next \in VectorIds \cup {RasterId, NoLayer} :
            LayerWillBeRemoved(next) /\ UNCHANGED burstAux
    \/ \E commit_ok \in BOOLEAN : ToggleTracking(commit_ok) /\ UNCHANGED burstAux
    \/ CreateEditedFields /\ UNCHANGED burstAux

Spec == Init /\ [][Next]_vars

\* The same up to unload(): once the plugin is unloaded its toolbar is gone
\* and its project and layer-change slots are disconnected; nothing it still
\* does (the editing slots stay connected) writes the settings.
NextUnload ==
    \/ \E l \in VectorIds, src \in Sources, flds \in LoadableFields :
            ~unloaded /\ AddLayer(l, src, flds) /\ UNCHANGED burstAux
    \/ \E layer \in VectorIds \cup {RasterId, NoLayer} :
            ~unloaded /\ CurrentLayerChanged(layer) /\ UNCHANGED burstAux
    \/ \E l \in VectorIds, reply \in BOOLEAN :
            ~unloaded /\ StartEditing(l, reply) /\ UNCHANGED burstAux
    \/ \E l \in VectorIds : ~unloaded /\ StopEditing(l) /\ UNCHANGED burstAux
    \/ \E l \in VectorIds : ~unloaded /\ LayersWillBeRemoved(l) /\ UNCHANGED burstAux
    \/ \E next \in VectorIds \cup {RasterId, NoLayer} :
            ~unloaded /\ LayerWillBeRemoved(next) /\ UNCHANGED burstAux
    \/ \E commit_ok \in BOOLEAN :
            ~unloaded /\ ToggleTracking(commit_ok) /\ UNCHANGED burstAux
    \/ ~unloaded /\ CreateEditedFields /\ UNCHANGED burstAux
    \/ Unload

SpecUnload == Init /\ [][NextUnload]_vars

\* The state right after initGui() in a project whose one vector layer, A, is
\* the active layer: its editing signals are connected, nothing is tracked.
InitEdit ==
    /\ InitPlugin
    /\ activeLayer = "A"
    /\ projectLayers = {"A"}
    /\ isEditable = [l \in VectorIds |-> FALSE]
    /\ \E flds \in LoadableFields :
         /\ layerFields = [l \in VectorIds |-> IF l = "A" THEN flds ELSE {}]
         /\ \E feats \in [1..MaxEditFeat -> FeaturesFor(flds) \cup {NoFeature}] :
              features = [l \in VectorIds |->
                            [fid \in Fids |->
                               IF l = "A" /\ fid <= MaxEditFeat
                               THEN feats[fid] ELSE NoFeature]]
    /\ layerSource = [l \in VectorIds |-> CHOOSE s \in Sources : TRUE]
    /\ selected = [l \in VectorIds |-> {}]
    /\ currentDate = 1
    /\ day_date = 1
    /\ edit_conn = [l \in VectorIds |-> IF l = "A" THEN 1 ELSE 0]
    /\ mut_conn = [l \in VectorIds |-> 0]
    /\ edit_signal_connected_layer_id = "A"
    /\ toggle_checked = FALSE
    /\ create_enabled = FALSE
    /\ tools_enabled = FALSE

\* Tracking, editing sessions and mutation events of the one layer A over
\* several days.  The stats timer started by initGui stays pending.
NextEdit ==
    \/ \E commit_ok \in BOOLEAN : ToggleTracking(commit_ok) /\ UNCHANGED burstAux
    \/ CreateEditedFields /\ UNCHANGED burstAux
    \/ \E reply \in BOOLEAN : StartEditing("A", reply) /\ UNCHANGED burstAux
    \/ StopEditing("A") /\ UNCHANGED burstAux
    \/ \E fid \in 1..MaxEditFeat, geom \in BOOLEAN :
            GeometryChanged("A", fid, geom) /\ UNCHANGED burstAux
    \/ \E fid \in 1..MaxEditFeat, f \in Feature :
            FeatureAdded("A", fid, f) /\ UNCHANGED burstAux
    \/ NextDay /\ UNCHANGED burstAux

SpecEdit == InitEdit /\ [][NextEdit]_vars

\* A state in which layer A is active, in an editing session, tracked and
\* attached, carries both fields and any features, a day is selected in the
\* stats dock, and the stats timer is about to time out.
InitStats ==
    /\ activeLayer = "A"
    /\ projectLayers = {"A"}
    /\ isEditable = [l \in VectorIds |-> l = "A"]
    /\ layerFields = [l \in VectorIds |-> IF l = "A" THEN RequiredFields ELSE {}]
    /\ layerSource = [l \in VectorIds |-> CHOOSE s \in Sources : TRUE]
    /\ \E feats \in [Fids -> Feature \cup {NoFeature}] :
         features = [l \in VectorIds |->
                       IF l = "A" THEN feats ELSE [fid \in Fids |-> NoFeature]]
    /\ selected = [l \in VectorIds |-> {}]
    /\ currentDate = 1
    /\ day_date \in Days
    /\ edit_conn = [l \in VectorIds |-> IF l = "A" THEN 1 ELSE 0]
    /\ mut_conn = [l \in VectorIds |-> IF l = "A" THEN 1 ELSE 0]
    /\ tracked_layer_ids = {"A"}
    /\ auto_connections = {"A"}
    /\ prompted_this_edit_session = {}
    /\ tracked_sources = {layerSource["A"]}
    /\ edit_signal_connected_layer_id = "A"
    /\ stats_timer_active = TRUE
    /\ timer_remaining = 0
    /\ pending_refreshes = 1
    /\ toggle_checked = TRUE
    /\ create_enabled = FALSE
    /\ tools_enabled = TRUE
    /\ stats_label = NoCounts("tracking_off")
    /\ removing = NoLayer
    /\ prompt_count = [l \in VectorIds |-> 0]
    /\ session_stopped = {}
    /\ burst_n = 0
    /\ burst_age = 0
    /\ burst_recomputes = 0
    /\ burst_fresh = FALSE
    /\ unloaded = FALSE
    /\ since_request = StatsDelay

\* The recompute over every bounded collection of records.
NextStats ==
    \/ StatsTimeout /\ UNCHANGED burstAux

SpecStats == InitStats /\ [][NextStats]_vars

\* Layers A and B are in editing sessions, tracked and attached, and hold one
\* feature each; A is the active layer and no refresh is pending.
InitTimer ==
    /\ activeLayer = "A"
    /\ projectLayers = VectorIds
    /\ isEditable = [l \in VectorIds |-> TRUE]
    /\ layerFields = [l \in VectorIds |-> RequiredFields]
    /\ layerSource = [l \in VectorIds |-> CHOOSE s \in Sources : TRUE]
    /\ \E f \in {g \in Feature : g.geom /\ g.edited \in {0, 1} /\ g.date = None} :
         features = [l \in VectorIds |->
                       [fid \in Fids |-> IF fid = 1 THEN f ELSE NoFeature]]
    /\ selected = [l \in VectorIds |-> {}]
    /\ currentDate = 1
    /\ day_date = 1
    /\ edit_conn = [l \in VectorIds |-> IF l = "A" THEN 1 ELSE 0]
    /\ mut_conn = [l \in VectorIds |-> 1]
    /\ tracked_layer_ids = VectorIds
    /\ auto_connections = VectorIds
    /\ prompted_this_edit_session = {}
    /\ tracked_sources = {layerSource["A"]}
    /\ edit_signal_connected_layer_id = "A"
    /\ stats_timer_active = FALSE
    /\ timer_remaining = 0
    /\ pending_refreshes = 0
    /\ toggle_checked = TRUE
    /\ create_enabled = FALSE
    /\ tools_enabled = TRUE
    /\ stats_label = NoCounts("tracking_off")
    /\ removing = NoLayer
    /\ prompt_count = [l \in VectorIds |-> 0]
    /\ session_stopped = {}
    /\ burst_n = 0
    /\ burst_age = 0
    /\ burst_recomputes = 0
    /\ burst_fresh = FALSE
    /\ unloaded = FALSE
    /\ since_request = StatsDelay

\* The stats timer on a clock of TickUnit ms.  One burst of refresh requests
\* caused by mutation events of either layer is observed: its requests all
\* fall within StatsDelay ms of its first one; the Refresh Stats button is
\* used before it.
NextTimer ==
    \/ \E l \in VectorIds, geom \in BOOLEAN :
          /\ burst_n < MaxBurst
          /\ burst_n > 0 => burst_age < StatsDelay
          /\ GeometryChanged(l, 1, geom)
          /\ BurstRequest
    \/ burst_n = 0 /\ RefreshStats /\ EarlierRequest
    \/ Tick(TickUnit) /\ BurstTick(TickUnit)
    \/ StatsTimeout /\ BurstRecompute

SpecTimer == InitTimer /\ [][NextTimer]_vars

\* SpecTimer under the scheduling of the GUI thread: every handler returns to
\* the Qt event loop, so time goes on and a timeout of _stats_timer that is
\* due is delivered.
SpecTimerLive ==
    /\ SpecTimer
    /\ WF_vars(Tick(TickUnit) /\ BurstTick(TickUnit))
    /\ WF_vars(StatsTimeout /\ BurstRecompute)

\* The state right after initGui() in a project whose one vector layer, A, is
\* the active layer; A has any of the two fields and at most one feature.
InitTools ==
    /\ InitPlugin
    /\ activeLayer = "A"
    /\ projectLayers = {"A"}
    /\ isEditable = [l \in VectorIds |-> FALSE]
    /\ \E flds \in SUBSET RequiredFields :
         /\ layerFields = [l \in VectorIds |-> IF l = "A" THEN flds ELSE {}]
         /\ \E f \in FeaturesFor(flds) \cup {NoFeature} :
              features = [l \in VectorIds |->
                            [fid \in Fids |->
                               IF l = "A" /\ fid = 1 THEN f ELSE NoFeature]]
    /\ layerSource = [l \in VectorIds |-> CHOOSE s \in Sources : TRUE]
    /\ selected = [l \in VectorIds |-> {}]
    /\ currentDate = 1
    /\ day_date = 1
    /\ edit_conn = [l \in VectorIds |-> IF l = "A" THEN 1 ELSE 0]
    /\ mut_conn = [l \in VectorIds |-> 0]
    /\ edit_signal_connected_layer_id = "A"
    /\ toggle_checked = FALSE
    /\ create_enabled = FALSE
    /\ tools_enabled = FALSE

\* The toolbar and the stats dock with layer A, the raster layer or no layer
\* active: the toggle, create fields, the four tools, sessions and geometry
\* changes of A, and the stats timer on a clock of StatsDelay ms.
NextTools ==
    \/ \E layer \in {"A", RasterId, NoLayer} :
            CurrentLayerChanged(layer) /\ UNCHANGED burstAux
    \/ \E commit_ok \in BOOLEAN : ToggleTracking(commit_ok) /\ UNCHANGED burstAux
    \/ CreateEditedFields /\ UNCHANGED burstAux
    \/ \E reply \in BOOLEAN : StartEditing("A", reply) /\ UNCHANGED burstAux
    \/ StopEditing("A") /\ UNCHANGED burstAux
    \/ \E geom \in BOOLEAN : GeometryChanged("A", 1, geom) /\ UNCHANGED burstAux
    \/ \E ids \in SUBSET {1} : SelectFeatures("A", ids) /\ UNCHANGED burstAux
    \/ MarkSelectedAsEdited /\ UNCHANGED burstAux
    \/ \E accepted \in BOOLEAN, sel_date \in Days :
            UpdateDateForSelected(accepted, sel_date) /\ UNCHANGED burstAux
    \/ RemoveNullGeometry /\ UNCHANGED burstAux
    \/ SelectNullAttributes /\ UNCHANGED burstAux
    \/ RefreshStats /\ UNCHANGED burstAux
    \/ Tick(StatsDelay) /\ UNCHANGED burstAux
    \/ StatsTimeout /\ UNCHANGED burstAux

SpecTools == InitTools /\ [][NextTools]_vars

\* The handlers of the toolbar called in any state, whether on_layer_changed
\* left their actions enabled or not: the first tests of each handler decide
\* alone what it does.
NextHandlers ==
    \/ \E layer \in {"A", RasterId, NoLayer} :
            CurrentLayerChanged(layer) /\ UNCHANGED burstAux
    \/ \E commit_ok \in BOOLEAN : ToggleTracking(commit_ok) /\ UNCHANGED burstAux
    \/ create_edited_fields /\ UNCHANGED burstAux
    \/ \E reply \in BOOLEAN : StartEditing("A", reply) /\ UNCHANGED burstAux
    \/ StopEditing("A") /\ UNCHANGED burstAux
    \/ \E geom \in BOOLEAN : GeometryChanged("A", 1, geom) /\ UNCHANGED burstAux
    \/ \E ids \in SUBSET {1} : SelectFeatures("A", ids) /\ UNCHANGED burstAux
    \/ mark_selected_as_edited /\ UNCHANGED burstAux
    \/ \E accepted \in BOOLEAN, sel_date \in Days :
            update_date_for_selected(accepted, sel_date) /\ UNCHANGED burstAux
    \/ remove_null_geometry /\ UNCHANGED burstAux
    \/ select_null_attributes /\ UNCHANGED burstAux
    \/ Tick(StatsDelay) /\ UNCHANGED burstAux
    \/ StatsTimeout /\ UNCHANGED burstAux

SpecHandlers == InitTools /\ [][NextHandlers]_vars

\* The state right after create_edited_fields() ran on the active layer A:
\* A is tracked, bound and in the editing session the handler opened, and
\* every feature it holds was initialised.
InitWrites ==
    /\ tracked_layer_ids = {"A"}
    /\ auto_connections = {"A"}
    /\ prompted_this_edit_session = {}
    /\ stats_timer_active = TRUE
    /\ timer_remaining = StatsDelay
    /\ pending_refreshes = 1
    /\ stats_label = NoCounts("fields_missing")
    /\ removing = NoLayer
    /\ prompt_count = [l \in VectorIds |-> 0]
    /\ session_stopped = {}
    /\ burst_n = 0
    /\ burst_age = 0
    /\ burst_recomputes = 0
    /\ burst_fresh = FALSE
    /\ unloaded = FALSE
    /\ since_request = 0
    /\ activeLayer = "A"
    /\ projectLayers = {"A"}
    /\ isEditable = [l \in VectorIds |-> l = "A"]
    /\ layerFields = [l \in VectorIds |-> IF l = "A" THEN RequiredFields ELSE {}]
    /\ layerSource = [l \in VectorIds |-> CHOOSE s \in Sources : TRUE]
    /\ \E feats \in [Fids -> Feature \cup {NoFeature}] :
         features = [l \in VectorIds |->
                       IF l = "A" THEN InitializedFeatures(feats)
                       ELSE [fid \in Fids |-> NoFeature]]
    /\ selected = [l \in VectorIds |-> {}]
    /\ currentDate = 1
    /\ day_date = 1
    /\ edit_conn = [l \in VectorIds |-> IF l = "A" THEN 1 ELSE 0]
    /\ mut_conn = [l \in VectorIds |-> IF l = "A" THEN 1 ELSE 0]
    /\ edit_signal_connected_layer_id = "A"
    /\ toggle_checked = TRUE
    /\ create_enabled = FALSE
    /\ tools_enabled = TRUE
    /\ tracked_sources \in {srcs \in SUBSET Sources : layerSource["A"] \in srcs}

\* The writes of the plugin to the records of the tracked, bound layer A: the
\* two stamping callbacks and the tools, over sessions and days.
NextWrites ==
    \/ \E fid \in Fids, geom \in BOOLEAN :
            GeometryChanged("A", fid, geom) /\ UNCHANGED burstAux
    \/ \E fid \in Fids, f \in Feature :
            FeatureAdded("A", fid, f) /\ UNCHANGED burstAux
    \/ \E ids \in SUBSET Fids : SelectFeatures("A", ids) /\ UNCHANGED burstAux
    \/ MarkSelectedAsEdited /\ UNCHANGED burstAux
    \/ \E accepted \in BOOLEAN, sel_date \in Days :
            UpdateDateForSelected(accepted, sel_date) /\ UNCHANGED burstAux
    \/ RemoveNullGeometry /\ UNCHANGED burstAux
    \/ SelectNullAttributes /\ UNCHANGED burstAux
    \/ \E reply \in BOOLEAN : StartEditing("A", reply) /\ UNCHANGED burstAux
    \/ StopEditing("A") /\ UNCHANGED burstAux
    \/ NextDay /\ UNCHANGED burstAux
    \/ Tick(StatsDelay) /\ UNCHANGED burstAux
    \/ StatsTimeout /\ UNCHANGED burstAux

SpecWrites == InitWrites /\ [][NextWrites]_vars

\* unload() disconnected on_layer_changed and _connect_edit_signals_for_layer
\* from iface.currentLayerChanged: the host changes the active layer and no
\* slot of the plugin runs.
CurrentLayerChangedAfterUnload(layer) ==
    /\ unloaded
    /\ layer # activeLayer
    /\ layer \in projectLayers \cup {RasterId, NoLayer}
    /\ activeLayer' = layer
    /\ UNCHANGED <<projectLayers, isEditable, layerFields, layerSource, features,
                   selected, currentDate, edit_conn, mut_conn, registryVars,
                   timerVars, uiVars, statsVars, removing, sessionAux>>

\* unload() disconnected _on_layers_will_be_removed and
\* _on_layer_will_be_removed from the project: the host removes a layer, which
\* takes its connections with it, and no slot of the plugin runs.
LayerRemovedAfterUnload(l) ==
    /\ unloaded
    /\ l \in projectLayers
    /\ projectLayers' = projectLayers \ {l}
    /\ activeLayer' = IF activeLayer = l THEN NoLayer ELSE activeLayer
    /\ isEditable' = [isEditable EXCEPT ![l] = FALSE]
    /\ layerFields' = [layerFields EXCEPT ![l] = {}]
    /\ layerSource' = [layerSource EXCEPT ![l] = CHOOSE s \in Sources : TRUE]
    /\ features' = [features EXCEPT ![l] = [fid \in Fids |-> NoFeature]]
    /\ selected' = [selected EXCEPT ![l] = {}]
    /\ edit_conn' = [edit_conn EXCEPT ![l] = 0]
    /\ mut_conn' = [mut_conn EXCEPT ![l] = 0]
    /\ prompt_count' = [prompt_count EXCEPT ![l] = 0]
    /\ session_stopped' = session_stopped \ {l}
    /\ UNCHANGED <<currentDate, registryVars, timerVars, uiVars, statsVars, removing>>

\* The layer A of SpecEdit with the stats timer running, up to unload() and
\* after it.  unload() removes the toolbar and disconnects the layer-change
\* and removal slots; it leaves _on_layer_editing_started and
\* _on_layer_editing_stopped connected to the layers they were connected to
\* and does not stop _stats_timer, so the host still delivers these.
NextAfterUnload ==
    \/ \E commit_ok \in BOOLEAN :
            ~unloaded /\ ToggleTracking(commit_ok) /\ UNCHANGED burstAux
    \/ ~unloaded /\ CreateEditedFields /\ UNCHANGED burstAux
    \/ Unload
    \/ \E reply \in BOOLEAN : StartEditing("A", reply) /\ UNCHANGED burstAux
    \/ StopEditing("A") /\ UNCHANGED burstAux
    \/ \E fid \in 1..MaxEditFeat, geom \in BOOLEAN :
            GeometryChanged("A", fid, geom) /\ UNCHANGED burstAux
    \/ \E fid \in 1..MaxEditFeat, f \in Feature :
            FeatureAdded("A", fid, f) /\ UNCHANGED burstAux
    \/ NextDay /\ UNCHANGED burstAux
    \/ Tick(StatsDelay) /\ UNCHANGED burstAux
    \/ StatsTimeout /\ UNCHANGED burstAux
    \/ \E layer \in {"A", RasterId, NoLayer} :
            CurrentLayerChangedAfterUnload(layer) /\ UNCHANGED burstAux
    \/ LayerRemovedAfterUnload("A") /\ UNCHANGED burstAux

SpecAfterUnload == InitEdit /\ [][NextAfterUnload]_vars

\* Select NULL Attributes and the stats recompute over the states of
\* InitStats: every bounded collection of records of the tracked layer A,
\* with any selection the user makes and the refresh requested by hand.
NextSelect ==
    \/ SelectNullAttributes /\ UNCHANGED burstAux
    \/ \E ids \in SUBSET Fids : SelectFeatures("A", ids) /\ UNCHANGED burstAux
    \/ RefreshStats /\ UNCHANGED burstAux
    \/ Tick(StatsDelay) /\ UNCHANGED burstAux
    \/ StatsTimeout /\ UNCHANGED burstAux

SpecSelect == InitStats /\ [][NextSelect]_vars

(* ------------------------------- claims ------------------------------- *)

\* C1: for every id, the resume prompt for that id is shown at most once
\* between the start of one of its editing sessions and the next
\* editing-stopped of that same layer.
C1_AtMostOnePromptPerSession ==
    \A l \in VectorIds : prompt_count[l] <= 1

\* C2: when an editing session of a layer stopped and a later session of the
\* same layer starts, its id is not in the prompted set at the moment the new
\* session starts, whichever layer was active when the session stopped.
C2_NotPromptedAcrossStopStart ==
    [][\A l \in VectorIds :
          (l \in session_stopped /\ ~isEditable[l] /\ isEditable'[l])
              => l \notin prompted_this_edit_session]_vars

\* Whether an id is in one of the three registry structures.
InRegistry(l) ==
    \/ l \in tracked_layer_ids
    \/ l \in prompted_this_edit_session
    \/ l \in auto_connections

\* C3: once the removal notification for an id has been handled, the id is in
\* none of the tracked set, the prompted set and the binding map, and its
\* mutation callbacks are detached; no id outside the project is left in them.
C3_CleanupComplete ==
    \A l \in VectorIds :
        (removing = l \/ l \notin projectLayers)
            => (~InRegistry(l) /\ mut_conn[l] = 0)

\* Witness of C3: the first removal notification of a layer that is in an
\* editing session, carries the fields and was tracked before has been handled.
C3_Witness ==
    /\ removing # NoLayer
    /\ isEditable[removing]
    /\ LayerHasRequiredFields(layerFields, removing)
    /\ layerSource[removing] \in tracked_sources
    /\ tracked_layer_ids # {}

TrackedAttached(l) ==
    /\ l \in tracked_layer_ids
    /\ l \in auto_connections
    /\ mut_conn[l] > 0

\* C5: a geometry-modified notification on a tracked, attached layer leaves a
\* record whose tag is already 1 with its tag and its date: the date of the
\* first edit is not overwritten, also on a later day.
C5_StampedDateKept ==
    [][\A l \in VectorIds, fid \in Fids, geom \in BOOLEAN :
          (/\ GeometryChanged(l, fid, geom)
           /\ TrackedAttached(l)
           /\ features[l][fid].edited = 1)
              => /\ features'[l][fid].edited = 1
                 /\ features'[l][fid].date = features[l][fid].date]_vars

\* Witness of C5: on a tracked, attached layer in an editing session a record
\* carries tag 1 and the date of an earlier day.
C5_Witness ==
    \E l \in VectorIds, fid \in Fids :
        /\ TrackedAttached(l)
        /\ isEditable[l]
        /\ features[l][fid] # NoFeature
        /\ features[l][fid].edited = 1
        /\ features[l][fid].date \in Days
        /\ features[l][fid].date < currentDate

\* C6: a geometry-modified notification on a tracked, attached layer for a
\* record whose tag is absent or 0 leaves the record with tag 1 and the
\* current day as its date.
C6_UnsetTagStamped ==
    [][\A l \in VectorIds, fid \in Fids, geom \in BOOLEAN :
          (/\ GeometryChanged(l, fid, geom)
           /\ TrackedAttached(l)
           /\ features[l][fid].edited \in {None, 0})
              => /\ features'[l][fid].edited = 1
                 /\ features'[l][fid].date = currentDate]_vars

\* Witness of C6: on the second day a record of a tracked, attached layer
\* carries tag 0 (and is about to be modified), in an editing session.
C6_Witness ==
    \E l \in VectorIds, fid \in Fids :
        /\ TrackedAttached(l)
        /\ isEditable[l]
        /\ features[l][fid] # NoFeature
        /\ features[l][fid].edited = 0
        /\ currentDate > 1

\* C7: a record-added notification on a tracked, attached layer leaves the new
\* record with tag 1 and the current day as its date, whatever it carried.
C7_AddedAlwaysStamped ==
    [][\A l \in VectorIds, fid \in Fids, f \in Feature :
          (FeatureAdded(l, fid, f) /\ TrackedAttached(l))
              => /\ features'[l][fid].edited = 1
                 /\ features'[l][fid].date = currentDate]_vars

\* Witness of C7: a tracked, attached layer in an editing session has a free
\* feature id on the second day.
C7_Witness ==
    \E l \in VectorIds, fid \in 1..MaxEditFeat :
        /\ TrackedAttached(l)
        /\ isEditable[l]
        /\ features[l][fid] = NoFeature
        /\ currentDate > 1

\* The bucket of one record by the six classification rules, in their order.
Classify(f) ==
    IF ~f.geom THEN "NullGeometry"
    ELSE IF f.edited = None THEN "NullTag"
    ELSE IF f.edited # 0 /\ f.edited # 1 THEN "InvalidTagValue"
    ELSE IF f.edited = 1 /\ f.date \notin Days THEN "TagSetNoDate"
    ELSE IF f.edited = 1 THEN "Edited"
    ELSE "NotEdited"

\* The number of records of the active layer in one of the buckets.
InBuckets(buckets) ==
    Cardinality({fid \in Fids :
                   /\ features[activeLayer][fid] # NoFeature
                   /\ Classify(features[activeLayer][fid]) \in buckets})

\* C8: a recompute on a tracked layer with the fields publishes the counts of
\* the six rules applied in order: total = number of records, null geometry =
\* #NullGeometry, null attributes = #NullTag + #InvalidTagValue +
\* #TagSetNoDate, edited = #Edited, not edited = #NotEdited, and day count =
\* number of Edited records dated on the selected day.
C8_CountsFollowRules ==
    ~stats_timer_active =>
        /\ stats_label.kind = "stats"
        /\ stats_label.day = day_date
        /\ stats_label.counts.total =
             InBuckets({"NullGeometry", "NullTag", "InvalidTagValue",
                        "TagSetNoDate", "Edited", "NotEdited"})
        /\ stats_label.counts.null_geom = InBuckets({"NullGeometry"})
        /\ stats_label.counts.null_attr =
             InBuckets({"NullTag"}) + InBuckets({"InvalidTagValue"})
               + InBuckets({"TagSetNoDate"})
        /\ stats_label.counts.edited_1 = InBuckets({"Edited"})
        /\ stats_label.counts.edited_0 = InBuckets({"NotEdited"})
        /\ stats_label.counts.day_count =
             Cardinality({fid \in Fids :
                            /\ features[activeLayer][fid] # NoFeature
                            /\ Classify(features[activeLayer][fid]) = "Edited"
                            /\ features[activeLayer][fid].date = day_date})

\* Witness of C8: a recompute ran over a collection that has a record of tag 1
\* without a date, a record dated on the selected day and nothing else alike.
C8_Witness ==
    /\ ~stats_timer_active
    /\ stats_label.counts.total = MaxFeat
    /\ stats_label.counts.null_attr >= 1
    /\ stats_label.counts.day_count >= 1

\* C9: every record is counted in exactly one bucket on every recompute, for
\* every geometry, tag and date: total = null geometry + null attributes +
\* edited + not edited, day count <= edited, and the recompute does not fail.
C9_CountsPartition ==
    ~stats_timer_active =>
        /\ stats_label.kind = "stats"
        /\ ~stats_label.counts.failed
        /\ stats_label.counts.total =
             Cardinality({fid \in Fids : features[activeLayer][fid] # NoFeature})
        /\ stats_label.counts.total =
             stats_label.counts.null_geom + stats_label.counts.null_attr
               + stats_label.counts.edited_1 + stats_label.counts.edited_0
        /\ stats_label.counts.day_count <= stats_label.counts.edited_1

\* Witness of C9: a recompute ran over a collection with a record without
\* geometry and a record whose tag is no number.
C9_Witness ==
    /\ ~stats_timer_active
    /\ stats_label.counts.null_geom >= 1
    /\ \E fid \in Fids : /\ features[activeLayer][fid] # NoFeature
                         /\ features[activeLayer][fid].geom
                         /\ features[activeLayer][fid].edited = NotANumber

\* The observed burst is over and nothing is pending.
BurstSettled ==
    /\ burst_n > 0
    /\ burst_age >= StatsDelay
    /\ ~stats_timer_active

C12_OnePendingRefresh ==
    /\ pending_refreshes <= 1
    /\ stats_timer_active <=> pending_refreshes = 1

\* Witness of C12: one refresh is pending after requests of mutation events of
\* both layers that all arrived before any recompute.
C12_Witness ==
    /\ pending_refreshes = 1
    /\ burst_n >= 2
    /\ burst_recomputes = 0
    /\ \A l \in VectorIds : features[l][1].edited = 1 /\ features[l][1].date = currentDate

\* The popup is shown for id l in this step: the slot adds the id to the
\* prompted set right before the popup, and nothing else adds to that set.
PromptShown(l) ==
    l \notin prompted_this_edit_session /\ l \in prompted_this_edit_session'

\* C13: the resume prompt is shown for a layer only if at that moment its id is
\* not tracked, both fields exist and its source is among the stored sources,
\* whatever its id is and whatever was tracked under that id before.
C13_PromptOnlyWhenEligible ==
    [][\A l \in VectorIds :
          PromptShown(l)
              => /\ l \notin tracked_layer_ids
                 /\ LayerHasRequiredFields(layerFields, l)
                 /\ layerSource[l] \in tracked_sources]_vars

\* Witness of C13: a popup was shown for a layer nobody tracked in this run
\* (its source was stored by an earlier run), while the other layer, active,
\* in an editing session and carrying the fields, has an unknown source and
\* got none.
C13_Witness ==
    \E l \in VectorIds, k \in VectorIds :
        /\ l # k
        /\ prompt_count[l] = 1
        /\ l \in prompted_this_edit_session
        /\ layerSource[l] \in tracked_sources
        /\ activeLayer = k
        /\ edit_conn[k] > 0
        /\ isEditable[k]
        /\ LayerHasRequiredFields(layerFields, k)
        /\ layerSource[k] \notin tracked_sources
        /\ k \notin prompted_this_edit_session
        /\ k \notin tracked_layer_ids

\* C14: every id that has a binding (an entry of auto_connections, or connected
\* mutation callbacks) is tracked and its layer has both the tag and the date
\* field.
C14_BindingImpliesTrackedWithFields ==
    \A l \in VectorIds :
        (l \in auto_connections \/ mut_conn[l] > 0)
            => /\ l \in tracked_layer_ids
               /\ LayerHasRequiredFields(layerFields, l)

\* Witness of C14: one layer is tracked without the fields and has no binding,
\* the other is bound, after a layer was switched off or removed at least once
\* (a session of it stopped).
C14_Witness ==
    \E l \in VectorIds, k \in VectorIds :
        /\ l \in tracked_layer_ids
        /\ ~LayerHasRequiredFields(layerFields, l)
        /\ l \notin auto_connections
        /\ k \in auto_connections
        /\ k \in session_stopped

\* C15: a layer has at most one registered pair of mutation callbacks, so one
\* geometryChanged or featureAdded notification runs the stamping once.
C15_AtMostOneCallbackPair ==
    \A l \in VectorIds : mut_conn[l] <= 1

\* Witness of C15: a layer is bound after it was bound and unbound before: it
\* is tracked with one pair of callbacks, a session of it has stopped (tracking
\* was switched off with a commit, or the session ended otherwise), and the
\* other layer is bound too.
C15_Witness ==
    \E l \in VectorIds, k \in VectorIds :
        /\ l # k
        /\ mut_conn[l] = 1
        /\ l \in session_stopped
        /\ l \in prompted_this_edit_session
        /\ isEditable[l]
        /\ mut_conn[k] = 1

\* The user checks the Auto Edit toggle on an active vector layer in this step.
EnableStep ==
    /\ ActiveVectorLayer # NoLayer
    /\ ~toggle_checked
    /\ \E commit_ok \in BOOLEAN : ToggleTracking(commit_ok)

\* C16: after enable the id is tracked, and it is bound afterwards exactly if
\* both fields were present; a layer tracked without the fields is not bound,
\* becomes bound in the step of create_edited_fields, and in no other step.
C16_EnableBindsIffFields ==
    [][/\ EnableStep
            => /\ activeLayer \in tracked_layer_ids'
               /\ (activeLayer \in auto_connections')
                     <=> LayerHasRequiredFields(layerFields, activeLayer)
               /\ mut_conn'[activeLayer] =
                     IF LayerHasRequiredFields(layerFields, activeLayer) THEN 1 ELSE 0
       /\ \A l \in VectorIds :
            (l \in tracked_layer_ids /\ ~LayerHasRequiredFields(layerFields, l))
                => /\ l \notin auto_connections
                   /\ (CreateEditedFields /\ activeLayer = l)
                         => (l \in auto_connections' /\ mut_conn'[l] = 1)
                   /\ l \in auto_connections'
                         => (CreateEditedFields /\ activeLayer = l)]_vars

\* Witness of C16: the active layer was enabled without the fields: it is
\* tracked and unbound, in the editing session enable opened, and the
\* create-fields action is available.
C16_Witness ==
    /\ activeLayer \in VectorIds
    /\ activeLayer \in tracked_layer_ids
    /\ ~LayerHasRequiredFields(layerFields, activeLayer)
    /\ activeLayer \notin auto_connections
    /\ isEditable[activeLayer]
    /\ toggle_checked
    /\ create_enabled

\* The user unchecks the Auto Edit toggle on the active vector layer in this
\* step, and the commit returns commit_ok.
DisableStep(commit_ok) ==
    /\ ActiveVectorLayer # NoLayer
    /\ toggle_checked
    /\ ToggleTracking(commit_ok)

\* C17: after disable the id is not tracked and has no binding, whether the
\* commit succeeds or fails; after a failed commit the layer is still in its
\* editing session (the commit is not tried again), and a geometry change or
\* an added feature on an untracked layer is not stamped.
C17_DisableDespiteCommitFailure ==
    [][/\ \A commit_ok \in BOOLEAN :
            DisableStep(commit_ok)
                => /\ activeLayer \notin tracked_layer_ids'
                   /\ activeLayer \notin auto_connections'
                   /\ mut_conn'[activeLayer] = 0
                   /\ isEditable'[activeLayer] = (isEditable[activeLayer] /\ ~commit_ok)
       /\ \A l \in VectorIds, fid \in Fids, geom \in BOOLEAN :
            (GeometryChanged(l, fid, geom) /\ l \notin tracked_layer_ids)
                => /\ features'[l][fid].edited = features[l][fid].edited
                   /\ features'[l][fid].date = features[l][fid].date
       /\ \A l \in VectorIds, fid \in Fids, f \in Feature :
            (FeatureAdded(l, fid, f) /\ l \notin tracked_layer_ids)
                => features'[l][fid] = f]_vars

\* Witness of C17: tracking of the active layer was switched off and the
\* commit failed: the layer is untracked and still in an editing session that
\* no popup was shown in although the layer is eligible for one (so the
\* session was opened while it was tracked), and it holds a record of tag 0.
C17_Witness ==
    /\ activeLayer \in VectorIds
    /\ activeLayer \notin tracked_layer_ids
    /\ isEditable[activeLayer]
    /\ edit_conn[activeLayer] > 0
    /\ LayerHasRequiredFields(layerFields, activeLayer)
    /\ layerSource[activeLayer] \in tracked_sources
    /\ activeLayer \notin prompted_this_edit_session
    /\ \E fid \in Fids : /\ features[activeLayer][fid] # NoFeature
                         /\ features[activeLayer][fid].edited = 0

\* C18: disabling tracking of a layer leaves the membership of its id in the
\* prompted set unchanged, the commit that disable performs included.
C18_DisableKeepsPrompted ==
    [][\A commit_ok \in BOOLEAN :
          (DisableStep(commit_ok) /\ activeLayer \in prompted_this_edit_session)
              => activeLayer \in prompted_this_edit_session']_vars

\* C18 as amended: disable itself does not touch the prompted set.  The id of
\* the layer leaves the set exactly when the commit of disable ends the open
\* editing session of the layer (the editing-stopped slot then discards it);
\* when the layer is in no session or the commit fails the set is unchanged,
\* and the membership of every other id is unchanged in each case.
C18_DisableClearsPromptedOnlyOnSessionEnd ==
    [][\A commit_ok \in BOOLEAN :
          DisableStep(commit_ok)
              => prompted_this_edit_session' =
                    IF isEditable[activeLayer] /\ ~isEditable'[activeLayer]
                    THEN prompted_this_edit_session \ {activeLayer}
                    ELSE prompted_this_edit_session]_vars

\* Witness of C18: tracking of the active layer was switched off and its
\* session ended with the commit: the layer is untracked, out of its session
\* and out of the prompted set, while the other layer, in a session of its
\* own, is still in the prompted set.
C18_Witness ==
    \E k \in VectorIds :
        /\ activeLayer \in VectorIds
        /\ k # activeLayer
        /\ ~toggle_checked
        /\ activeLayer \notin tracked_layer_ids
        /\ activeLayer \in session_stopped
        /\ ~isEditable[activeLayer]
        /\ activeLayer \notin prompted_this_edit_session
        /\ LayerHasRequiredFields(layerFields, activeLayer)
        /\ layerSource[activeLayer] \in tracked_sources
        /\ k \in prompted_this_edit_session
        /\ isEditable[k]

\* C19: when the user answers yes to the popup, the id of the layer the popup
\* was about is tracked and bound when the slot returns; the slot starts no
\* editing session (only the layer whose session emitted the signal changes
\* its session state) and does not run the toggle handler (which would save
\* the source).
C19_YesTracksAndBinds ==
    [][\A l \in VectorIds :
          (StartEditing(l, TRUE) /\ PromptShown(activeLayer))
              => /\ activeLayer \in tracked_layer_ids'
                 /\ activeLayer \in auto_connections'
                 /\ mut_conn'[activeLayer] = 1
                 /\ toggle_checked'
                 /\ \A k \in VectorIds \ {l} : isEditable'[k] = isEditable[k]
                 /\ tracked_sources' = tracked_sources]_vars

\* Witness of C19: a layer is tracked, bound and in the prompted set without
\* ever having been in an editing session: the popup about it was answered
\* yes (the signal came from another layer's session), and nothing started
\* editing it.
C19_Witness ==
    \E l \in VectorIds :
        /\ l \in tracked_layer_ids
        /\ l \in auto_connections
        /\ mut_conn[l] = 1
        /\ l \in prompted_this_edit_session
        /\ ~isEditable[l]
        /\ l \notin session_stopped

\* C20: when the user answers no to the popup, the tracked set, the bindings,
\* the stored sources, the fields and every record are unchanged (and so are
\* the stats timer and the actions); the id is added to the prompted set and
\* that is all the slot did.
C20_NoChangesNothing ==
    [][\A l \in VectorIds :
          (StartEditing(l, FALSE) /\ PromptShown(activeLayer))
              => /\ UNCHANGED <<tracked_layer_ids, auto_connections, mut_conn,
                                tracked_sources, layerFields, features,
                                edit_signal_connected_layer_id, edit_conn,
                                timerVars, uiVars, statsVars>>
                 /\ prompted_this_edit_session' =
                        prompted_this_edit_session \cup {activeLayer}]_vars

\* Witness of C20: the popup of the running session of the active layer was
\* answered no: the layer is in the prompted set and untracked, unbound, and
\* holds a record.
C20_Witness ==
    /\ activeLayer \in VectorIds
    /\ isEditable[activeLayer]
    /\ prompt_count[activeLayer] = 1
    /\ activeLayer \in prompted_this_edit_session
    /\ activeLayer \notin tracked_layer_ids
    /\ activeLayer \notin auto_connections
    /\ ~toggle_checked
    /\ \E fid \in Fids : features[activeLayer][fid] # NoFeature

\* A toggle, an editing-started notification (with its popup and answer) or a
\* create-fields invocation happens in this step.
EnableOrCreateStep ==
    \/ \E commit_ok \in BOOLEAN : ToggleTracking(commit_ok)
    \/ \E l \in VectorIds, reply \in BOOLEAN : StartEditing(l, reply)
    \/ CreateEditedFields

\* The tag of the record is put back to 0 or its date to NULL in this step.
RecordReset(l, fid) ==
    /\ features[l][fid] # NoFeature
    /\ features'[l][fid] # NoFeature
    /\ \/ features[l][fid].edited # 0 /\ features'[l][fid].edited = 0
       \/ features[l][fid].date # None /\ features'[l][fid].date = None

C22_SchemaCreationIdempotent ==
    [][\A l \in VectorIds :
          (CreateEditedFields /\ l = ActiveVectorLayer /\ l \in tracked_layer_ids)
              => /\ layerFields'[l] = FieldsAfterCreate(layerFields[l])
                 /\ layerFields'[l] = RequiredFields
                 /\ AttributeCountAfterCreate(layerFields[l])
                        = Cardinality(RequiredFields)
                 /\ NewFields(layerFields'[l]) = << >>
                 /\ AttributeCountAfterCreate(layerFields'[l])
                        = Cardinality(RequiredFields)
                 /\ FieldsAfterCreate(FieldsAfterCreate(layerFields[l]))
                        = FieldsAfterCreate(layerFields[l])]_vars

\* A tracked layer right after create-fields ran on it: both fields exist, the
\* create action is disabled, the layer is editable and attached, and its
\* record is initialised.
C22_Witness ==
    \E l \in VectorIds :
        /\ l = ActiveVectorLayer
        /\ l \in tracked_layer_ids
        /\ l \in auto_connections
        /\ layerFields[l] = RequiredFields
        /\ ~create_enabled
        /\ tools_enabled
        /\ isEditable[l]
        /\ features[l][1] # NoFeature
        /\ features[l][1].edited = 0
        /\ features[l][1].date = None

\* The active layer is one _update_stats_now scans: a vector layer whose id is
\* tracked and that has both fields.
StatsScanDue ==
    /\ activeLayer \in VectorIds
    /\ activeLayer \in tracked_layer_ids
    /\ LayerHasRequiredFields(layerFields, activeLayer)

\* C23: a recompute scans the records only of an active vector layer that is
\* tracked and has both fields.  With no active layer, a non-vector one,
\* tracking off or a field missing it publishes the result of that case with
\* no record counted, whatever records the layer holds; and for a scanned
\* layer without records every count is zero.
C23_ScanOnlyTrackedVectorWithFields ==
    [][StatsTimeout =>
          /\ (stats_label'.kind \in {"stats", "error"}) <=> StatsScanDue
          /\ ~StatsScanDue =>
                /\ stats_label'.counts = ZeroCounts
                /\ stats_label'.kind =
                      IF activeLayer = NoLayer THEN "no_layer"
                      ELSE IF activeLayer \notin VectorIds THEN "non_vector"
                      ELSE IF activeLayer \notin tracked_layer_ids THEN "tracking_off"
                      ELSE "fields_missing"
          /\ (StatsScanDue /\ features[activeLayer] = NoFeatures[activeLayer]) =>
                /\ stats_label'.kind = "stats"
                /\ stats_label'.counts = ZeroCounts
          /\ (StatsScanDue /\ features[activeLayer] # NoFeatures[activeLayer]) =>
                stats_label'.counts.total > 0]_vars

\* A tracked layer that holds a record but lacks a field is active, and the
\* recompute published "fields missing" with nothing counted.
C23_Witness ==
    /\ activeLayer \in VectorIds
    /\ activeLayer \in tracked_layer_ids
    /\ ~LayerHasRequiredFields(layerFields, activeLayer)
    /\ features[activeLayer][1] # NoFeature
    /\ stats_label.kind = "fields_missing"
    /\ stats_label.counts = ZeroCounts

TrackingTurnsOn(l) ==
    l \notin tracked_layer_ids /\ l \in tracked_layer_ids'

\* The popup of _on_layer_editing_started is due and the user answers Yes.
YesAnswerStep ==
    /\ PromptDue
    /\ \E k \in VectorIds : StartEditing(k, TRUE)

\* C25: an id joins the tracked set only for the active vector layer and only
\* in a step of the toggle being checked or of a Yes answer to the popup; no
\* step of editing started without a Yes, editing stopped, layer change,
\* layer load, removal or create fields adds an id.
C25_TrackingOnlyByUserAction ==
    [][\A l \in VectorIds :
          TrackingTurnsOn(l)
              => /\ l = ActiveVectorLayer
                 /\ toggle_checked'
                 /\ EnableStep \/ YesAnswerStep]_vars

\* A layer tracked through the popup: it was prompted in its running editing
\* session and is tracked and bound, with the toggle shown checked.
C25_Witness ==
    \E l \in VectorIds :
        /\ l = ActiveVectorLayer
        /\ l \in tracked_layer_ids
        /\ l \in prompted_this_edit_session
        /\ l \in auto_connections
        /\ isEditable[l]
        /\ toggle_checked

\* C26: a geometryChanged or featureAdded notification on a layer whose id is
\* not tracked changes the tag and the date of no record (the added record
\* keeps the values it was added with); an untracked layer has no callback
\* connected after any step, disable and cleanup included; and the commit
\* that disable performs stamps nothing, whatever it notifies.
C26_NoStampingWhenUntracked ==
    [][/\ \A l \in VectorIds, fid \in Fids, geom \in BOOLEAN :
            (GeometryChanged(l, fid, geom) /\ l \notin tracked_layer_ids)
                => \A k \in VectorIds, g \in Fids :
                      /\ features'[k][g].edited = features[k][g].edited
                      /\ features'[k][g].date = features[k][g].date
       /\ \A l \in VectorIds, fid \in Fids, f \in Feature :
            (FeatureAdded(l, fid, f) /\ l \notin tracked_layer_ids)
                => features' = [features EXCEPT ![l][fid] = f]
       /\ \A l \in VectorIds :
            l \notin tracked_layer_ids' => mut_conn'[l] = 0
       /\ \A commit_ok \in BOOLEAN :
            DisableStep(commit_ok) => features' = features]_vars

\* Tracking of the active layer was switched off with a successful commit
\* that ended a session opened while it was tracked; the layer, untracked and
\* unbound, is in a new session, and its record is valid and unstamped.
C26_Witness ==
    /\ activeLayer \in VectorIds
    /\ activeLayer \notin tracked_layer_ids
    /\ mut_conn[activeLayer] = 0
    /\ activeLayer \in session_stopped
    /\ isEditable[activeLayer]
    /\ LayerHasRequiredFields(layerFields, activeLayer)
    /\ layerSource[activeLayer] \in tracked_sources
    /\ features[activeLayer][1] # NoFeature
    /\ features[activeLayer][1].geom
    /\ features[activeLayer][1].edited = 0
    /\ features[activeLayer][1].date = None

\* A geometryChanged notification was handled by a binding just now: its
\* stamping is applied and its refresh request made.
NotificationHandled == burst_n > 0 /\ since_request = 0

\* No refresh is pending and the published statistics are those of the
\* present state of the active layer.
StatsCurrent ==
    /\ ~stats_timer_active
    /\ pending_refreshes = 0
    /\ stats_label = UpdateStatsNow

C28_TrackedSourcesOnlyGrow ==
    [][/\ tracked_sources \subseteq tracked_sources'
       /\ EnableStep => layerSource[activeLayer] \in tracked_sources']_vars

\* The plugin was unloaded after every source was stored; a layer without the
\* fields is still in the editing session that enabling it opened.
C28_Witness ==
    /\ unloaded
    /\ tracked_layer_ids = {}
    /\ tracked_sources = Sources
    /\ \E l \in VectorIds :
          /\ l \in projectLayers
          /\ isEditable[l]
          /\ ~LayerHasRequiredFields(layerFields, l)

\* What an aborted operation must leave as it is: the tracked set, the
\* prompted set, the bindings, the stored sources, the fields, the records,
\* the selection and the editable state.
AbortFrame ==
    UNCHANGED <<tracked_layer_ids, prompted_this_edit_session, auto_connections,
                mut_conn, tracked_sources, layerFields, features, selected,
                isEditable>>

\* One of the handlers create_edited_fields, mark_selected_as_edited,
\* update_date_for_selected, remove_null_geometry, select_null_attributes runs
\* in this step.
ToolCall ==
    \/ create_edited_fields
    \/ mark_selected_as_edited
    \/ \E accepted \in BOOLEAN, sel_date \in Days :
          update_date_for_selected(accepted, sel_date)
    \/ remove_null_geometry
    \/ select_null_attributes

\* C29: the toggle, create fields and the four tools, called while no vector
\* layer is active, and create fields and the tools, called while the active
\* vector layer is not tracked, change none of the tracked set, the prompted
\* set, the bindings, the stored sources, the fields, the records and the
\* editable state.
C29_AbortLeavesStateUnchanged ==
    [][/\ (ActiveVectorLayer = NoLayer
             /\ (ToolCall \/ \E commit_ok \in BOOLEAN : ToggleTracking(commit_ok)))
            => AbortFrame
       /\ (ActiveVectorLayer # NoLayer
             /\ ActiveVectorLayer \notin tracked_layer_ids
             /\ ToolCall)
            => AbortFrame]_vars

\* The active vector layer is not tracked, has both fields, is in an editing
\* session and holds a selected record of tag 0 with a geometry: each tool
\* would change it if it did not abort.
C29_Witness ==
    /\ activeLayer \in VectorIds
    /\ activeLayer \notin tracked_layer_ids
    /\ LayerHasRequiredFields(layerFields, activeLayer)
    /\ isEditable[activeLayer]
    /\ selected[activeLayer] = {1}
    /\ features[activeLayer][1] # NoFeature
    /\ features[activeLayer][1].geom
    /\ features[activeLayer][1].edited = 0
    /\ activeLayer \in session_stopped

\* mark_selected_as_edited, update_date_for_selected or select_null_attributes
\* runs in this step.
FieldsToolCall ==
    \/ mark_selected_as_edited
    \/ \E accepted \in BOOLEAN, sel_date \in Days :
          update_date_for_selected(accepted, sel_date)
    \/ select_null_attributes

\* C30: the fields of a layer change only in a step of create_edited_fields
\* on the tracked active layer, which adds the missing ones and removes none.
\* Enable, disable, the popup, attach, the stamping callbacks, the recompute
\* and the tools leave the fields alone: a layer that lacks a field after a
\* step has no binding, enabling it leaves it tracked, and mark selected,
\* update date and select NULL attributes abort on it.
C30_FieldsChangeOnlyByCreate ==
    [][\A l \in VectorIds :
          /\ layerFields'[l] # layerFields[l]
                => /\ create_edited_fields
                   /\ l = ActiveVectorLayer
                   /\ l \in tracked_layer_ids
                   /\ layerFields[l] \subseteq layerFields'[l]
                   /\ layerFields'[l] = RequiredFields
          /\ ~LayerHasRequiredFields(layerFields', l)
                => /\ l \notin auto_connections'
                   /\ mut_conn'[l] = 0
          /\ (EnableStep /\ l = ActiveVectorLayer)
                => l \in tracked_layer_ids'
          /\ (FieldsToolCall /\ l = ActiveVectorLayer
                 /\ ~LayerHasRequiredFields(layerFields, l))
                => AbortFrame]_vars

\* The active layer lacks a field and is tracked without a binding, in the
\* editing session that enabling it opened, and holds a selected record.
C30_Witness ==
    /\ activeLayer \in VectorIds
    /\ activeLayer \in tracked_layer_ids
    /\ layerFields[activeLayer] # RequiredFields
    /\ layerFields[activeLayer] # {}
    /\ activeLayer \notin auto_connections
    /\ isEditable[activeLayer]
    /\ create_enabled
    /\ selected[activeLayer] = {1}

\* C31: the step of unload() leaves the bindings, the tracked set and the
\* prompted set empty and no layer with a mutation callback connected, from
\* whichever state unload() is called, a failing disconnect being swallowed.
C31_UnloadEmptiesRegistry ==
    [][Unload => /\ auto_connections' = {}
                 /\ tracked_layer_ids' = {}
                 /\ prompted_this_edit_session' = {}
                 /\ \A l \in VectorIds : mut_conn'[l] = 0]_vars

\* The plugin was unloaded while the active layer was tracked and bound (the
\* toggle is still shown checked and the tools enabled) and in an editing
\* session; the layer has no callback connected any more.
C31_Witness ==
    /\ unloaded
    /\ activeLayer \in VectorIds
    /\ toggle_checked
    /\ tools_enabled
    /\ isEditable[activeLayer]
    /\ mut_conn[activeLayer] = 0
    /\ activeLayer \notin tracked_layer_ids

\* C32: enabling tracking through the toggle shows no popup.  The
\* editingStarted emitted by the layer.startEditing() of the toggle finds the
\* id tracked: the prompted set is unchanged, no prompt is counted for the
\* session the toggle opened, and the layer has at most one pair of callbacks
\* afterwards.
C32_EnableShowsNoPrompt ==
    [][EnableStep
          => /\ prompted_this_edit_session' = prompted_this_edit_session
             /\ prompt_count'[activeLayer] = prompt_count[activeLayer]
                   \/ (~isEditable[activeLayer] /\ prompt_count'[activeLayer] = 0)
             /\ isEditable'[activeLayer]
             /\ mut_conn'[activeLayer] <= 1]_vars

\* The active layer, loaded with both fields and a stored source and wired to
\* the editing slots, is tracked and bound in a session in which no prompt
\* was counted, and no session of it stopped since it was loaded.
C32_Witness ==
    /\ activeLayer \in VectorIds
    /\ activeLayer \in tracked_layer_ids
    /\ activeLayer \in auto_connections
    /\ isEditable[activeLayer]
    /\ edit_conn[activeLayer] > 0
    /\ LayerHasRequiredFields(layerFields, activeLayer)
    /\ layerSource[activeLayer] \in tracked_sources
    /\ activeLayer \notin prompted_this_edit_session
    /\ prompt_count[activeLayer] = 0
    /\ activeLayer \notin session_stopped

\* The layers the plugin's editing slots are connected to.
WiredLayers == {l \in VectorIds : edit_conn[l] > 0}

\* C33: the popup is shown for a layer only in the step in which that layer's
\* own editing session starts, an editing-stopped notification takes only the
\* id of the layer whose session stopped out of the prompted set, and after
\* every step the editing slots are connected to at most one layer, the
\* active one.
C33_SessionSlotsFollowActiveLayer ==
    [][/\ \A l \in VectorIds :
            PromptShown(l) => (~isEditable[l] /\ isEditable'[l])
       /\ \A k \in VectorIds :
            StopEditing(k) =>
                prompted_this_edit_session \ {k} \subseteq prompted_this_edit_session'
       /\ WiredLayers' \subseteq {activeLayer'}]_vars

\* A record carries tag 1 with a valid date, or tag 0 with no date.
TagDateConsistent(f) ==
    \/ f.edited = 1 /\ f.date \in Days
    \/ f.edited = 0 /\ f.date = None

\* C34: from a layer freshly initialised by create_edited_fields, under any
\* sequence of the two stamping callbacks, mark selected and update date,
\* every record has tag 1 with a date or tag 0 without one, so none is
\* classified TagSetNoDate (nor counted as a NULL attribute).
C34_OwnWritesKeepTagDateConsistent ==
    \A fid \in Fids :
        features["A"][fid] # NoFeature
            => /\ TagDateConsistent(features["A"][fid])
               /\ Classify(features["A"][fid]) # "TagSetNoDate"
               /\ ~IsNullAttribute(features["A"][fid])

\* On the second day one record carries tag 1 with the date of the first day,
\* another was added and stamped today, after a session of the layer stopped.
C34_Witness ==
    /\ currentDate = 2
    /\ features["A"][1] # NoFeature
    /\ features["A"][1].edited = 1
    /\ features["A"][1].date = 1
    /\ features["A"][2] # NoFeature
    /\ features["A"][2].edited = 1
    /\ features["A"][2].date = 2
    /\ "A" \in session_stopped

\* C35: the editing-stopped of a layer removes nothing from the tracked set
\* or the binding map and disconnects no callback; it only clears the
\* prompted flag of the active layer and requests a refresh.  When the
\* session of the active, still tracked layer starts again no prompt is
\* shown and nothing is attached anew, and a geometry change in the new
\* session of a bound layer is stamped by the binding it kept.
C35_StopKeepsTrackingAndBinding ==
    [][/\ \A l \in VectorIds :
            StopEditing(l)
                => /\ tracked_layer_ids' = tracked_layer_ids
                   /\ auto_connections' = auto_connections
                   /\ mut_conn' = mut_conn
                   /\ prompted_this_edit_session' \subseteq prompted_this_edit_session
                   /\ prompted_this_edit_session \ prompted_this_edit_session'
                        \subseteq {activeLayer}
                   /\ (edit_conn[l] > 0 /\ ActiveVectorLayer # NoLayer
                        => stats_timer_active')
       /\ \A l \in VectorIds, reply \in BOOLEAN :
            (/\ StartEditing(l, reply)
             /\ l = activeLayer
             /\ l \in tracked_layer_ids
             /\ l \in session_stopped)
                => /\ prompt_count'[l] = 0
                   /\ prompted_this_edit_session' = prompted_this_edit_session
                   /\ tracked_layer_ids' = tracked_layer_ids
                   /\ auto_connections' = auto_connections
                   /\ mut_conn' = mut_conn
       /\ \A l \in VectorIds, fid \in Fids, geom \in BOOLEAN :
            (/\ GeometryChanged(l, fid, geom)
             /\ l \in auto_connections
             /\ l \in session_stopped
             /\ features[l][fid].edited \in {None, 0})
                => /\ features'[l][fid].edited = 1
                   /\ features'[l][fid].date = currentDate
      ]_vars

\* On the second day, in a session of the tracked and bound layer A that
\* started after an earlier one stopped, a record was stamped with today's
\* date, with one connection per callback and no prompt counted.
C35_Witness ==
    /\ activeLayer = "A"
    /\ "A" \in session_stopped
    /\ isEditable["A"]
    /\ "A" \in tracked_layer_ids
    /\ "A" \in auto_connections
    /\ mut_conn["A"] = 1
    /\ prompt_count["A"] = 0
    /\ "A" \notin prompted_this_edit_session
    /\ currentDate = 2
    /\ features["A"][1] # NoFeature
    /\ features["A"][1].edited = 1
    /\ features["A"][1].date = 2

\* C36: after unload() no later notification of the host (editing started or
\* stopped, a mutation, a layer change, a removal, the pending stats timer)
\* shows the prompt, adds to the tracked or the prompted set, attaches a
\* binding that could stamp, or recomputes the statistics: the three
\* registries stay empty.
C36_NothingHappensAfterUnload ==
    [][unloaded
         => /\ \A l \in VectorIds : ~PromptShown(l)
            /\ tracked_layer_ids' = {}
            /\ prompted_this_edit_session' = {}
            /\ auto_connections' = {}
            /\ \A l \in VectorIds : mut_conn'[l] = 0
            /\ ~StatsTimeout]_vars

\* The records of a layer that the loop of _update_stats_now counts in
\* null_attr.
CountedNullAttribute(feats) ==
    {fid \in Fids : /\ feats[fid] # NoFeature
                    /\ \A d \in Days : FeatureIncrements(feats[fid], d).null_attr = 1}

\* C37: Select NULL Attributes and the stats recompute agree: the records
\* the tool selects are the records the recompute counts as NULL attributes,
\* their number is the published NULL attribute count, and no record without
\* geometry is selected.
C37_SelectAgreesWithStats ==
    [][/\ (select_null_attributes /\ ToolReady(ActiveVectorLayer))
            => /\ selected'[activeLayer] = CountedNullAttribute(features[activeLayer])
               /\ \A d \in Days :
                    Cardinality(selected'[activeLayer])
                        = ScanLayer(features[activeLayer], d).counts.null_attr
               /\ \A fid \in selected'[activeLayer] : features[activeLayer][fid].geom
       /\ (StatsTimeout /\ stats_label'.kind = "stats")
            => stats_label'.counts.null_attr
                    = Cardinality(NullAttributeIds(features[activeLayer]))
      ]_vars

\* The tool selected the one record with tag 1 and no date and left out the
\* record without geometry and with no tag; the published counts show one
\* NULL attribute and one NULL geometry.
C37_Witness ==
    /\ features["A"][1] # NoFeature
    /\ features["A"][1].geom
    /\ features["A"][1].edited = 1
    /\ features["A"][1].date = None
    /\ features["A"][2] # NoFeature
    /\ ~features["A"][2].geom
    /\ features["A"][2].edited = None
    /\ selected["A"] = {1}
    /\ stats_label.kind = "stats"
    /\ stats_label.counts.null_attr = 1
    /\ stats_label.counts.null_geom = 1

====
